---- MODULE Spec2Model ----
(***************************************************************************)
(* A model of shenfun's distributed tensor-product transform pipeline:     *)
(* the planning of the 1D bases (legendre/bases.py, fourier/bases.py),     *)
(* the construction of a TensorProductSpace and its forward / backward /   *)
(* scalar_product pipelines, and the wiring of the boundary values of a    *)
(* Dirichlet basis (tensorproductspace.py).                                *)
(*                                                                         *)
(* Arrays are modelled by their identity (a buffer number handed out by    *)
(* the allocator), their shape, their dtype and an abstract content: the   *)
(* data they were filled with and the list of transforms applied to it.    *)
(* The model follows one process (rank 0 of every sub-group); array        *)
(* contents are the global array's.  Axis indices are 0-based as in the    *)
(* source, TLA+ sequences are 1-based: axis a of a list l is l[a+1].       *)
(***************************************************************************)
EXTENDS Integers, Sequences, FiniteSets, TLC

VARIABLES
    basis,   \* the basis objects K0..K3: parameters, plan state, BoundaryValues
    heap,    \* number of arrays allocated so far (pyfftw.empty_aligned)
    mem,     \* content of every allocated array
    space,   \* the TensorProductSpace objects T and TT (NoSpace before __init__)
    call,    \* the operation executed last, with its arguments and outcome
    trace,   \* the local transforms and redistributions that operation executed
    proc,    \* every process of the group: where it is in a call of eval
    freed    \* every sub-group and redistribution: the destroy calls it received

vars == <<basis, heap, mem, space, call, trace, proc, freed>>

(***************************************************************************)
(* Bounds of the model.                                                    *)
(***************************************************************************)
MaxN == 4        \* largest number of quadrature points of a basis
MaxProcs == 2    \* largest size of the process group
MaxBuf == 6      \* arrays the stand-alone plan calls may allocate
MaxDim == 3      \* largest number of bases of a space built with any arguments
MaxDestroy == 2  \* destroy calls a Subcomm may receive

(***************************************************************************)
(* Small helpers.                                                          *)
(***************************************************************************)
Range(s) == {s[i] : i \in 1..Len(s)}

Last(s) == s[Len(s)]

Reverse(s) == [i \in 1..Len(s) |-> s[Len(s) + 1 - i]]

RECURSIVE Prod(_)
Prod(s) == IF s = <<>> THEN 1 ELSE s[1] * Prod(Tail(s))

SetMin(S) == CHOOSE x \in S : \A y \in S : x <= y

SetMax(S) == CHOOSE x \in S : \A y \in S : x >= y

\* The injective sequences over S (every element at most once), any length.
RECURSIVE InjSeqs(_)
InjSeqs(S) ==
    {<<>>} \cup UNION {{<<x>> \o t : t \in InjSeqs(S \ {x})} : x \in S}

(***************************************************************************)
(* dtypes, by numpy's type character.                                      *)
(***************************************************************************)
RealChars == {"f", "d", "g"}

ComplexChars == {"F", "D", "G"}

\* The complex dtype of the same precision (the output of a transform).
ComplexOf(dtype) ==
    CASE dtype = "f" -> "F"
      [] dtype = "d" -> "D"
      [] dtype = "g" -> "G"
      [] OTHER -> dtype

(***************************************************************************)
(* Array contents.  Zero is a zero-filled array; otherwise k names the     *)
(* data ("bc": the boundary array b with a and b in its two boundary       *)
(* slots, "x": a caller's array number a) and via lists the transforms     *)
(* applied to it, each <<basis, function>>.                                *)
(***************************************************************************)
Zero == [k |-> "zero", a |-> 0, b |-> 0, via |-> <<>>]

BcData(b0, b1) == [k |-> "bc", a |-> b0, b |-> b1, via |-> <<>>]

UserData(i) == [k |-> "x", a |-> i, b |-> 0, via |-> <<>>]

\* A linear transform maps the zero array to itself and anything else to
\* its image: the transform is appended to the content's history.
Apply(d, base, func) ==
    IF d.k = "zero" THEN d ELSE [d EXCEPT !.via = Append(@, <<base, func>>)]

(***************************************************************************)
(* The basis objects.  The catalogue follows tests/test_curl.py: K0 a      *)
(* Dirichlet basis, K1 a complex-to-complex and K2 a real-to-complex       *)
(* Fourier basis, K3 a basis without boundary conditions.  K4 is a second  *)
(* Dirichlet basis, passed only to the spaces with two Dirichlet bases.    *)
(***************************************************************************)
BasisIds == {"K0", "K1", "K2", "K3"}

DirichletIds == {"K0", "K4"}

Kind(id) ==
    CASE id = "K0" -> "ShenDirichlet"
      [] id = "K1" -> "C2C"
      [] id = "K2" -> "R2C"
      [] id = "K3" -> "Legendre"
      [] id = "K4" -> "ShenDirichlet"

IsFourier(kind) == kind \in {"C2C", "R2C"}

IsDirichlet(kind) == kind = "ShenDirichlet"

\* A basis that was never planned: forward is still the plain method.
Unplanned ==
    [planned |-> FALSE, shape |-> <<>>, axis |-> 0, dtype |-> "d",
     U |-> 0, V |-> 0, oshape |-> <<>>, odtype |-> "d"]

\* A boundary value: a number (k = "num"), or, once set_tensor_bcs has
\* run, a slice of the transformed boundary array: "scalar", a 0-d value
\* from a 1D array, or "arr", an array of several values.
Num(v) == [k |-> "num", v |-> v, via |-> <<>>]

\* A boundary value of another type given by the caller: a sympy expression
\* (k = "expr"), a numpy array of one element (k = "arr1"), both of value
\* v, or an object of a type update_bcs does not take (k = "other").
Given(k, v) == [k |-> k, v |-> v, via |-> <<>>]

\* BoundaryValues.__init__ followed by update_bcs(bc=bc); sliced says that
\* set_slices has given the object its sl0, sl1, slm1 and slm2.
NewBoundaryValues(bc) ==
    [bc |-> bc, bcs |-> bc, bcs_final |-> bc, axis |-> 0, T |-> "none",
     sliced |-> FALSE]

\* The quadrature a constructor takes when none is given: "GL" for Basis,
\* "LG" for ShenDirichletBasis; the Fourier bases pass ''.
DefaultQuad(kind) ==
    CASE kind = "Legendre" -> "GL"
      [] kind = "ShenDirichlet" -> "LG"
      [] OTHER -> ""

\* self._mass = None
NoMass == [built |-> FALSE, quad |-> "", N |-> 0]

\* The constructors of the bases: N, the default quadrature, no mass
\* matrix, padding factor pad/4, no plan.  Only the Dirichlet basis uses LT
\* and bc; the records of the other bases carry them unused.
NewBasis(id, N, pad, bc) ==
    [kind |-> Kind(id), N |-> N,
     quad |-> DefaultQuad(Kind(id)),
     mass |-> NoMass,
     pad |-> IF IsFourier(Kind(id)) THEN pad ELSE 4,
     fwd |-> Unplanned,
     LT |-> Unplanned,
     bc |-> NewBoundaryValues(IF IsDirichlet(Kind(id)) THEN bc
                              ELSE <<Num(0), Num(0)>>)]

(***************************************************************************)
(* Planning.  alloc hands out fresh arrays: a plan result is               *)
(* [ok, b (the basis object), heap, new (the arrays zero-filled)].         *)
(***************************************************************************)
SetAt(shape, axis, n) == [shape EXCEPT ![axis + 1] = n]

\* LegendreBase.plan: the early return when already planned.
LegendreAlreadyPlanned(p, shape, axis, dtype) ==
    p.planned /\ p.shape = shape /\ p.axis = axis

\* A variant that plans every basis on the same two work arrays.
LegendrePlanStateShared(p, shape, axis, dtype, h) ==
    IF LegendreAlreadyPlanned(p, shape, axis, dtype)
    THEN [p |-> p, heap |-> h, new |-> {}]
    ELSE [p |-> [planned |-> TRUE, shape |-> shape, axis |-> axis,
                 dtype |-> dtype, U |-> 1, V |-> 2,
                 oshape |-> shape, odtype |-> dtype],
          heap |-> IF h < 2 THEN 2 ELSE h, new |-> {1, 2}]

\* LegendreBase.plan on the plan state p of a basis.
LegendrePlanState(p, shape, axis, dtype, h) ==
    IF LegendreAlreadyPlanned(p, shape, axis, dtype)
    THEN [p |-> p, heap |-> h, new |-> {}]
    ELSE [p |-> [planned |-> TRUE, shape |-> shape, axis |-> axis,
                 dtype |-> dtype, U |-> h + 1, V |-> h + 2,
                 oshape |-> shape, odtype |-> dtype],
          heap |-> h + 2, new |-> {h + 1, h + 2}]

\* LegendreBase.plan for the basis object b (legendre Basis), r the
\* outcome on its plan state.
LegendrePlanned(b, r) ==
    [ok |-> TRUE, b |-> [b EXCEPT !.fwd = r.p], heap |-> r.heap,
     new |-> r.new]

LegendrePlan(b, shape, axis, dtype, h) ==
    LegendrePlanned(b, LegendrePlanState(b.fwd, shape, axis, dtype, h))

\* ShenDirichletBasis.plan after self.LT.plan, r its outcome: self.axis
\* is LT's, the new Transform objects are around LT's arrays.
ShenDirichletPlanned(b, r) ==
    [ok |-> TRUE, b |-> [b EXCEPT !.LT = r.p, !.fwd = r.p],
     heap |-> r.heap, new |-> r.new]

\* ShenDirichletBasis.plan: its own early return, then self.LT.plan.
ShenDirichletPlan(b, shape, axis, dtype, h) ==
    IF LegendreAlreadyPlanned(b.fwd, shape, axis, dtype)
    THEN [ok |-> TRUE, b |-> b, heap |-> h, new |-> {}]
    ELSE ShenDirichletPlanned(b, LegendrePlanState(b.LT, shape, axis,
                                                   dtype, h))

\* R2CBasis._get_truncarray: the length of the forward output along the
\* axis, for an input of n points and padding factor pad/4.
R2CTruncLen(n, pad) == ((4 * n) \div pad) \div 2 + 1

\* The same for the complex-to-complex basis: the logical spectral size.
C2CTruncLen(n, pad) == (4 * n) \div pad

\* The plan of a Fourier basis: a no-op when planned for the same shape,
\* axis and dtype; a real-to-complex basis takes real input only.
FourierPlan(b, shape, axis, dtype, h) ==
    IF b.fwd.planned /\ b.fwd.shape = shape /\ b.fwd.axis = axis
       /\ b.fwd.dtype = dtype
    THEN [ok |-> TRUE, b |-> b, heap |-> h, new |-> {}]
    ELSE IF b.kind = "R2C" /\ dtype \notin RealChars
    THEN [ok |-> FALSE, b |-> b, heap |-> h, new |-> {}]
    ELSE LET n == shape[axis + 1]
             m == IF b.kind = "R2C" THEN R2CTruncLen(n, b.pad)
                                    ELSE C2CTruncLen(n, b.pad)
         IN  [ok |-> TRUE,
              b |-> [b EXCEPT !.fwd = [planned |-> TRUE, shape |-> shape,
                                       axis |-> axis, dtype |-> dtype,
                                       U |-> h + 1, V |-> h + 2,
                                       oshape |-> SetAt(shape, axis, m),
                                       odtype |-> ComplexOf(dtype)]],
              heap |-> h + 2, new |-> {h + 1, h + 2}]

\* base.plan(shape, axis, dtype, options), dispatched on the class.
Plan(b, shape, axis, dtype, h) ==
    CASE b.kind = "Legendre" -> LegendrePlan(b, shape, axis, dtype, h)
      [] b.kind = "ShenDirichlet" -> ShenDirichletPlan(b, shape, axis, dtype, h)
      [] OTHER -> FourierPlan(b, shape, axis, dtype, h)

\* The arrays in new zero-filled (U.fill(0), V.fill(0)).
ZeroFill(m, new) ==
    [i \in DOMAIN m \cup new |-> IF i \in new THEN Zero ELSE m[i]]

(***************************************************************************)
(* TensorProductSpace.__init__, step by step.                              *)
(***************************************************************************)
\* np.round(N*padding_factor), numpy rounding halves to even.
PhysLen(b) ==
    LET x == b.N * b.pad
        q == x \div 4
    IN  IF x % 4 < 2 THEN q
        ELSE IF x % 4 > 2 THEN q + 1
        ELSE IF q % 2 = 0 THEN q ELSE q + 1

\* TensorProductSpace.shape(): the physical shape of the bases bs.
Shape(pool, bs) == [i \in 1..Len(bs) |-> PhysLen(pool[bs[i]])]

\* The axes argument: not given (None), or a list of ints.
NoAxes == [given |-> FALSE, v |-> <<>>]

Axes(v) == [given |-> TRUE, v |-> v]

\* Lines 51-57: negative entries count from the end; the default order.
NormalizeAxes(arg, nd) ==
    IF arg.given
    THEN [i \in 1..Len(arg.v) |->
             IF arg.v[i] < 0 THEN arg.v[i] + nd ELSE arg.v[i]]
    ELSE [i \in 1..nd |-> i - 1]

\* Lines 58-61: the assertions on the order (min() of no entries raises).
AxesValid(axes, nd) ==
    /\ axes # <<>>
    /\ SetMin(Range(axes)) >= 0
    /\ SetMax(Range(axes)) < nd
    /\ 0 < Len(axes) /\ Len(axes) <= nd
    /\ Cardinality(Range(axes)) = Len(axes)

\* A variant that infers the dtype from the first basis of the order.
InferDtypeFirst(pool, bs, axes) ==
    IF pool[bs[axes[1] + 1]].kind = "C2C" THEN "D" ELSE "d"

\* Line 64: np.complex for a complex-to-complex last basis, else np.float.
InferDtype(pool, bs, axes) ==
    IF pool[bs[Last(axes) + 1]].kind = "C2C" THEN "D" ELSE "d"

\* Lines 66-72: the assertions on an explicit dtype.
DtypeAccepted(pool, bs, axes, dtype) ==
    /\ pool[bs[Last(axes) + 1]].kind = "C2C" => dtype \in ComplexChars
    /\ pool[bs[Last(axes) + 1]].kind = "R2C" => dtype \in RealChars
    /\ dtype \in RealChars \cup ComplexChars

\* The process group: a plain communicator of `size` processes, or a
\* Subcomm of the caller with one sub-group of dims[i] processes per axis.
Comm(size) == [kind |-> "comm", size |-> size, dims |-> <<>>]

Subcomm(dims) == [kind |-> "subcomm", size |-> Prod(dims), dims |-> dims]

\* MPI.Compute_dims as Subcomm(comm, dims) uses it: the entries that are 0
\* are filled with a balanced factorisation of the processes left, largest
\* first; the entries given are kept.
ComputeDims(size, dims) ==
    LET free == {i \in 1..Len(dims) : dims[i] = 0}
        given == Prod([i \in 1..Len(dims) |->
                          IF dims[i] = 0 THEN 1 ELSE dims[i]])
        left == IF size % given = 0 THEN size \div given ELSE 1
        Fills == {f \in [free -> 1..left] :
                    /\ Prod([i \in 1..Len(dims) |->
                                IF i \in free THEN f[i] ELSE 1]) = left
                    /\ \A i, j \in free : i < j => f[i] >= f[j]}
        best == CHOOSE f \in Fills :
                    \A g \in Fills :
                        SetMax({f[i] : i \in free}) <= SetMax({g[i] : i \in free})
    IN  IF free = {} THEN dims
        ELSE [i \in 1..Len(dims) |-> IF i \in free THEN best[i] ELSE dims[i]]

\* Lines 81-82: slab decomposition, all processes on the first axis.
SlabDims(size, axes, nd) ==
    [i \in 1..nd |-> IF i = axes[1] + 1 THEN size ELSE 1]

\* Lines 84-86: pencil decomposition, the last axis of the order is whole.
PencilDims(size, axes, nd) ==
    ComputeDims(size, [i \in 1..nd |-> IF i = Last(axes) + 1 THEN 1 ELSE 0])

\* Lines 74-77: the assertions on a Subcomm of the caller.
SubcommAccepted(comm, slab, axes, nd) ==
    /\ slab = FALSE
    /\ Len(comm.dims) = nd
    /\ comm.dims[Last(axes) + 1] = 1

\* Lines 74-86: the sizes of the sub-groups, one per axis.
SubcommDims(comm, slab, axes, nd) ==
    IF comm.kind = "subcomm" THEN comm.dims
    ELSE IF slab THEN SlabDims(comm.size, axes, nd)
    ELSE PencilDims(comm.size, axes, nd)

\* Pencil(subcomm, shape, axis): the layout aligned along axis.
Pencil(sub, shape, axis) == [sub |-> sub, shape |-> shape, axis |-> axis]

\* pencil.subshape on rank 0 of every sub-group: the first block.
Subshape(p) ==
    [i \in 1..Len(p.shape) |-> (p.shape[i] + p.sub[i] - 1) \div p.sub[i]]

\* pencilA.pencil(axis): the sub-groups of the old and the new aligned
\* axis change places.
PencilOf(p, axis) ==
    Pencil([i \in 1..Len(p.sub) |->
               IF i = axis + 1 THEN p.sub[p.axis + 1]
               ELSE IF i = p.axis + 1 THEN p.sub[axis + 1]
               ELSE p.sub[i]],
           p.shape, axis)

\* pencilA.transfer(pencilB, dtype): a redistribution operator.
Transfer(pA, pB, dtype) == [A |-> pA, B |-> pB, dtype |-> dtype]

(***************************************************************************)
(* Lines 100-127: the stages.  The state of the loop is                    *)
(* [ok, pool, heap, new, shape, dtype, pencilA, pencil0, xfftn, transfer]. *)
(***************************************************************************)
\* A variant that does not write a changed output length back to shape.
ShapeAfterStale(shape, axis, f) == shape

\* Lines 109-111 and 122-124: the shape after a stage, the output length
\* of the basis along its axis replacing the input length.
ShapeAfter(shape, axis, f) ==
    IF shape[axis + 1] # f.oshape[axis + 1]
    THEN SetAt(shape, axis, f.oshape[axis + 1])
    ELSE shape

\* Lines 109-110 and 122-123: the dtype after a stage.
DtypeAfter(shape, axis, f, dtype) ==
    IF shape[axis + 1] # f.oshape[axis + 1] THEN f.odtype ELSE dtype

\* Lines 106-112: the first stage once its basis id has planned, r the
\* outcome of the plan.
FirstStaged(pool, id, sub, shape, dtype, axis, r) ==
    [ok |-> r.ok,
     pool |-> [pool EXCEPT ![id] = r.b],
     heap |-> r.heap,
     new |-> r.new,
     shape |-> IF r.ok THEN ShapeAfter(shape, axis, r.b.fwd) ELSE shape,
     dtype |-> IF r.ok THEN DtypeAfter(shape, axis, r.b.fwd, dtype)
               ELSE dtype,
     pencilA |-> IF r.ok
                 THEN Pencil(sub, ShapeAfter(shape, axis, r.b.fwd), axis)
                 ELSE Pencil(sub, shape, axis),
     pencil0 |-> Pencil(sub, shape, axis),
     xfftn |-> <<id>>,
     transfer |-> <<>>]

\* Lines 104-112: the stage of the last axis of the order.
FirstStage(pool, h, bs, sub, shape, dtype, axis) ==
    FirstStaged(pool, bs[axis + 1], sub, shape, dtype, axis,
                Plan(pool[bs[axis + 1]], Subshape(Pencil(sub, shape, axis)),
                     axis, dtype, h))

\* Lines 119-125: one pass of the loop once the basis id has planned for
\* the layout pencilB, r the outcome of the plan.
NextStaged(st, id, axis, pencilB, r) ==
    IF ~r.ok THEN [st EXCEPT !.ok = FALSE]
    ELSE [ok |-> TRUE,
          pool |-> [st.pool EXCEPT ![id] = r.b],
          heap |-> r.heap,
          new |-> st.new \cup r.new,
          shape |-> ShapeAfter(st.shape, axis, r.b.fwd),
          dtype |-> DtypeAfter(st.shape, axis, r.b.fwd, st.dtype),
          pencilA |-> Pencil(pencilB.sub,
                             ShapeAfter(st.shape, axis, r.b.fwd), axis),
          pencil0 |-> st.pencil0,
          xfftn |-> Append(st.xfftn, id),
          transfer |-> Append(st.transfer,
                              Transfer(st.pencilA, pencilB, st.dtype))]

\* Lines 115-118: the layout of the next stage and the plan of its basis.
NextPlanned(st, id, axis, pencilB) ==
    NextStaged(st, id, axis, pencilB,
               Plan(st.pool[id], Subshape(pencilB), axis, st.dtype, st.heap))

\* Lines 115-125: one pass of the loop, for the axis `axis`.
NextStage(st, bs, axis) ==
    NextPlanned(st, bs[axis + 1], axis, PencilOf(st.pencilA, axis))

\* Lines 114-125: the loop over reversed(self.axes[:-1]); rest holds the
\* axes still to do, the next one last.
RECURSIVE StageLoop(_, _, _)
StageLoop(st, bs, rest) ==
    IF rest = <<>> \/ ~st.ok THEN st
    ELSE StageLoop(NextStage(st, bs, Last(rest)), bs,
                   SubSeq(rest, 1, Len(rest) - 1))

\* Lines 100-127.
Stages(pool, h, bs, sub, shape, dtype, axes) ==
    StageLoop(FirstStage(pool, h, bs, sub, shape, dtype, Last(axes)), bs,
              SubSeq(axes, 1, Len(axes) - 1))

(***************************************************************************)
(* Lines 129-140: the three pipelines.  A stage is the Transform object    *)
(* of a basis at the end of the planning: its function, its input and      *)
(* output array and the axis it works along.                               *)
(***************************************************************************)
StageOf(pool, id, func) ==
    LET f == pool[id].fwd
    IN  [base |-> id, func |-> func, axis |-> f.axis,
         inp |-> IF func = "backward" THEN f.V ELSE f.U,
         out |-> IF func = "backward" THEN f.U ELSE f.V,
         ishape |-> IF func = "backward" THEN f.oshape ELSE f.shape,
         oshape |-> IF func = "backward" THEN f.shape ELSE f.oshape]

\* mpi4py_fft's Transform(xfftn, transfer, pencil): the stages, the
\* redistributions between them (each with its direction) and the pencils.
Pipeline(xfftn, transfer, pencil) ==
    [xfftn |-> xfftn, transfer |-> transfer, pencil |-> pencil]

NoPipeline == Pipeline(<<>>, <<>>, <<>>)

Directed(transfer, dir) ==
    [i \in 1..Len(transfer) |-> [k |-> i - 1, dir |-> dir]]

\* A variant in which backward keeps the stages in the order of forward.
BackwardPipelineSameOrder(pool, xfftn, transfer, pencil) ==
    Pipeline([i \in 1..Len(xfftn) |-> StageOf(pool, xfftn[i], "backward")],
             Directed(transfer, "backward"), Reverse(pencil))

ForwardPipeline(pool, xfftn, transfer, pencil) ==
    Pipeline([i \in 1..Len(xfftn) |-> StageOf(pool, xfftn[i], "forward")],
             Directed(transfer, "forward"), pencil)

BackwardPipeline(pool, xfftn, transfer, pencil) ==
    Pipeline([i \in 1..Len(xfftn) |->
                 StageOf(pool, Reverse(xfftn)[i], "backward")],
             Reverse(Directed(transfer, "backward")), Reverse(pencil))

ScalarProductPipeline(pool, xfftn, transfer, pencil) ==
    Pipeline([i \in 1..Len(xfftn) |->
                 StageOf(pool, xfftn[i], "scalar_product")],
             Directed(transfer, "forward"), pencil)

\* The TensorProductSpace objects of the model and their fields.
SpaceIds == {"T", "TT"}

NoSpace ==
    [built |-> FALSE, raised |-> FALSE, comm |-> Comm(1), bases |-> <<>>, dtype |-> "d",
     subcomm |-> <<>>, axes |-> <<>>, xfftn |-> <<>>, transfer |-> <<>>,
     pencil |-> <<>>, forward |-> NoPipeline, backward |-> NoPipeline,
     scalar_product |-> NoPipeline]

(***************************************************************************)
(* Running a pipeline.  The run state is [mem, trace]; stage i of the      *)
(* source is P.xfftn[i+1] here, and trace records what was executed.       *)
(***************************************************************************)
XfftnOp(i, stage) ==
    [op |-> "xfftn", i |-> i, base |-> stage.base, func |-> stage.func]

TransferOp(i, tr) ==
    [op |-> "transfer", i |-> tr.k, base |-> "-", func |-> tr.dir]

\* T.forward._xfftn[i](): the stage transforms its input array into its
\* output array.
ExecStage(run, P, j) ==
    LET stage == P.xfftn[j]
    IN  [mem |-> [run.mem EXCEPT ![stage.out] =
                     Apply(run.mem[stage.inp], stage.base, stage.func)],
         trace |-> Append(run.trace, XfftnOp(j - 1, stage))]

\* output_array[...] = input_array: the stage is passed over.
CopyStage(run, P, j) ==
    LET stage == P.xfftn[j]
    IN  [run EXCEPT !.mem[stage.out] = run.mem[stage.inp]]

\* T.forward._transfer[i](arrayA, arrayB): the output array of stage i is
\* redistributed into the input array of stage i+1.
ExecTransfer(run, P, j) ==
    [mem |-> [run.mem EXCEPT ![P.xfftn[j + 1].inp] =
                 run.mem[P.xfftn[j].out]],
     trace |-> Append(run.trace, TransferOp(j - 1, P.transfer[j]))]

\* Stage j executed, or passed over when it is in `skip`.
DoStage(run, P, j, skip) ==
    IF j \in skip THEN CopyStage(run, P, j) ELSE ExecStage(run, P, j)

\* The redistribution after stage j, when the stage has a successor.
DoTransfer(run, P, j) ==
    IF j < Len(P.xfftn) THEN ExecTransfer(run, P, j) ELSE run

\* Stages j..last in turn, each one that has a successor followed by its
\* redistribution; the stages in `skip` are passed over, not executed.
RECURSIVE RunStages(_, _, _, _, _)
RunStages(run, P, j, last, skip) ==
    IF j > last THEN run
    ELSE RunStages(DoTransfer(DoStage(run, P, j, skip), P, j), P, j + 1,
                   last, skip)

\* mpi4py_fft's Transform.__call__(input_array): the whole pipeline.
RunPipeline(m, P, input) ==
    RunStages([mem |-> [m EXCEPT ![P.xfftn[1].inp] = input], trace |-> <<>>],
              P, 1, Len(P.xfftn), {})

(***************************************************************************)
(* BoundaryValues.                                                         *)
(***************************************************************************)
\* A variant that never reports homogeneous boundary values.
HasNonhomogeneousBcsAlways(bv) == "true"

\* has_nonhomogeneous_bcs: the comparison of an array of several values
\* with 0 has no truth value (numpy raises).
HasNonhomogeneousBcs(bv) ==
    IF bv.bcs[1].k = "arr" THEN "error"
    ELSE IF bv.bcs[1].v # 0 THEN "true"
    ELSE IF bv.bcs[2].k = "arr" THEN "error"
    ELSE IF bv.bcs[2].v # 0 THEN "true"
    ELSE "false"

\* b_hat[self.slm2] (i = 1) and b_hat[self.slm1] (i = 2): the slice of an
\* array at a boundary slot, a 0-d value when the array is 1D.
SlotOf(d, i, nd) ==
    [k |-> IF nd = 1 THEN "scalar" ELSE "arr",
     v |-> IF i = 1 THEN d.a ELSE d.b,
     via |-> d.via]

\* Lines 724-737: the stages in the order forward executes them, 'D' for
\* a Dirichlet basis and 'F' for any other.
StageTags(T, pool) ==
    [i \in 1..Len(T.axes) |->
        IF IsDirichlet(pool[T.bases[Reverse(T.axes)[i] + 1]].kind)
        THEN "D" ELSE "F"]

DirichletStages(T, pool) ==
    {i \in 1..Len(T.axes) : StageTags(T, pool)[i] = "D"}

\* Lines 722, 735-736: the stages counted before the first Dirichlet one.
NumberOfBasesAfterDirichlet(T, pool) ==
    IF DirichletStages(T, pool) = {} THEN Len(T.axes)
    ELSE SetMin(DirichletStages(T, pool)) - 1

\* Line 727: assert axes[0] == base.axis; the stages that fail it.
MismatchedStages(T, pool) ==
    {i \in 1..Len(T.axes) :
        LET f == pool[T.bases[Reverse(T.axes)[i] + 1]].fwd
        IN  ~(f.planned /\ f.axis = Reverse(T.axes)[i])}

AxesMatchBases(T, pool) == MismatchedStages(T, pool) = {}

\* Line 730: self.axis after the loop, which stops at the first stage
\* that fails the assertion.
AxisAfterLoop(bv, T, pool) ==
    LET seen == {i \in DirichletStages(T, pool) :
                    \A j \in MismatchedStages(T, pool) : i < j}
    IN  IF seen = {} THEN bv.axis ELSE Reverse(T.axes)[SetMax(seen)]

\* [mem, trace, b_hat]: b_hat a copy of the array buf after the run.
Arrived(run, buf) ==
    [mem |-> run.mem, trace |-> run.trace, b_hat |-> run.mem[buf]]

\* A variant that takes bcs from the boundary array as it is.
BcsArrayDirect(T, m, b, n) == [mem |-> m, trace |-> <<>>, b_hat |-> b]

\* Lines 789-814: the boundary array pushed through the n stages before
\* the Dirichlet stage; b_hat is a copy of the array that arrives there.
BcsArray(T, m, b, n) ==
    IF n = 0 THEN [mem |-> m, trace |-> <<>>, b_hat |-> b]
    ELSE Arrived(RunStages([mem |-> [m EXCEPT ![T.forward.xfftn[1].inp] = b],
                            trace |-> <<>>], T.forward, 1, n, {}),
                 T.forward.xfftn[n + 1].inp)

\* Lines 820-837: the boundary array pushed through every 'F' stage.
BcsFinalArray(T, pool, m, tr, b) ==
    Arrived(RunStages([mem |-> [m EXCEPT ![T.forward.xfftn[1].inp] = b],
                       trace |-> tr], T.forward, 1, Len(T.forward.xfftn),
                      DirichletStages(T, pool)),
            Last(T.forward.xfftn).out)

\* Lines 817-818, 838-839: bcs and bcs_final from the two arrays.
BcsSet(bv, nd, b_hat, final) ==
    [ok |-> TRUE,
     bv |-> [bv EXCEPT !.bcs = <<SlotOf(b_hat, 1, nd), SlotOf(b_hat, 2, nd)>>,
                       !.bcs_final = <<SlotOf(final.b_hat, 1, nd),
                                       SlotOf(final.b_hat, 2, nd)>>],
     mem |-> final.mem, trace |-> final.trace]

\* Lines 820-839 after lines 789-818, first their outcome.
BcsFinal(bv, T, pool, b, first) ==
    BcsSet(bv, Len(T.bases), first.b_hat,
           BcsFinalArray(T, pool, first.mem, first.trace, b))

\* Lines 750-787: the boundary array b, by the type of bc[0]: the values
\* written to the slots slm2 and slm1.
BoundaryArray(bc) ==
    IF bc[1].k \in {"arr", "arr1"} THEN BcData(bc[1].v, bc[1].v)
    ELSE BcData(bc[1].v, bc[2].v)

\* Lines 739-839, bv with T and axis set by the loop over the stages and
\* hom the outcome of has_nonhomogeneous_bcs.
TensorBcs(bv, T, pool, m, hom) ==
    IF ~AxesMatchBases(T, pool) \/ DirichletStages(T, pool) = {}
       \/ hom = "error"
    THEN [ok |-> FALSE, bv |-> bv, mem |-> m, trace |-> <<>>]
    ELSE IF hom = "false"
    THEN [ok |-> TRUE,
          bv |-> [bv EXCEPT !.bcs = <<Num(0), Num(0)>>,
                            !.bcs_final = <<Num(0), Num(0)>>],
          mem |-> m, trace |-> <<>>]
    ELSE IF NumberOfBasesAfterDirichlet(T, pool) > 2
            \/ bv.bc[1].k = "other" \/ bv.bc[2].k = "other"
    THEN [ok |-> FALSE, bv |-> bv, mem |-> m, trace |-> <<>>]
    ELSE BcsFinal(bv, T, pool, BoundaryArray(bv.bc),
                  BcsArray(T, m, BoundaryArray(bv.bc),
                           NumberOfBasesAfterDirichlet(T, pool)))

\* set_tensor_bcs(T) of the BoundaryValues bv, T a TensorProductSpace that
\* holds a Dirichlet basis: [ok, bv, mem, trace].
SetTensorBcs(bv, sid, T, pool, m) ==
    IF \A i \in 1..Len(T.bases) : ~IsDirichlet(pool[T.bases[i]].kind)
    THEN [ok |-> TRUE, bv |-> [bv EXCEPT !.T = sid], mem |-> m,
          trace |-> <<>>]
    ELSE TensorBcs([bv EXCEPT !.T = sid,
                              !.axis = AxisAfterLoop(bv, T, pool),
                              !.sliced = @ \/ AxesMatchBases(T, pool)],
                   T, pool, m, HasNonhomogeneousBcs(bv))

(***************************************************************************)
(* TensorProductSpace.__init__ as a whole: [ok, pool, heap, mem, space,    *)
(* trace].  An assertion that fails leaves no space behind, but what the   *)
(* bases were made to plan before it stays planned.                        *)
(***************************************************************************)
\* Lines 47-49: assert shape; assert min(shape) > 0.
ShapeValid(shape) == shape # <<>> /\ \A i \in 1..Len(shape) : shape[i] > 0

\* One set_tensor_bcs of the loop done, r its outcome.
TensorBcsDone(run, id, r) ==
    [ok |-> r.ok, pool |-> [run.pool EXCEPT ![id].bc = r.bv],
     mem |-> r.mem, trace |-> run.trace \o r.trace]

\* Lines 142-145: set_tensor_bcs of every Dirichlet basis of the space, in
\* the order of bases; run is [ok, pool, mem, trace].
RECURSIVE TensorBcsLoop(_, _, _, _)
TensorBcsLoop(run, sid, T, rest) ==
    IF rest = <<>> \/ ~run.ok THEN run
    ELSE IF ~IsDirichlet(run.pool[rest[1]].kind)
    THEN TensorBcsLoop(run, sid, T, Tail(rest))
    ELSE TensorBcsLoop(
             TensorBcsDone(run, rest[1],
                           SetTensorBcs(run.pool[rest[1]].bc, sid, T,
                                        run.pool, run.mem)),
             sid, T, Tail(rest))

\* What __init__ leaves when it raises.
Raised(pool, h, m, tr) ==
    [ok |-> FALSE, pool |-> pool, heap |-> h, mem |-> m,
     space |-> [NoSpace EXCEPT !.raised = TRUE], trace |-> tr]

\* Lines 98-140: the attributes of the space, st the outcome of the stages.
SpaceOf(comm, bs, dtype, sub, axes, st) ==
    [built |-> TRUE, raised |-> FALSE, comm |-> comm, bases |-> bs,
     dtype |-> dtype, subcomm |-> sub, axes |-> axes,
     xfftn |-> st.xfftn, transfer |-> st.transfer,
     pencil |-> <<st.pencil0, st.pencilA>>,
     forward |-> ForwardPipeline(st.pool, st.xfftn, st.transfer,
                                 <<st.pencil0, st.pencilA>>),
     backward |-> BackwardPipeline(st.pool, st.xfftn, st.transfer,
                                   <<st.pencil0, st.pencilA>>),
     scalar_product |-> ScalarProductPipeline(st.pool, st.xfftn, st.transfer,
                                              <<st.pencil0, st.pencilA>>)]

\* Lines 142-145 done, bcs the outcome of the loop.
WithBcs(h, T, bcs) ==
    IF ~bcs.ok THEN Raised(bcs.pool, h, bcs.mem, bcs.trace)
    ELSE [ok |-> TRUE, pool |-> bcs.pool, heap |-> h, mem |-> bcs.mem,
          space |-> T, trace |-> bcs.trace]

\* Lines 129-145, T the space with its pipelines.
WithPipelines(st, m, sid, T) ==
    WithBcs(st.heap, T,
            TensorBcsLoop([ok |-> TRUE, pool |-> st.pool, mem |-> m,
                           trace |-> <<>>], sid, T, T.bases))

\* Lines 100-145, st the outcome of the stages.
WithStages(m, sid, bs, axes, dtype, comm, sub, st) ==
    IF ~st.ok THEN Raised(st.pool, st.heap, ZeroFill(m, st.new), <<>>)
    ELSE WithPipelines(st, ZeroFill(m, st.new), sid,
                       SpaceOf(comm, bs, dtype, sub, axes, st))

\* Lines 63-145, axes the order normalised and dtype the one given or
\* inferred.
WithAxes(pool, h, m, sid, bs, axes, dtypeArg, dtype, slab, comm) ==
    IF ~AxesValid(axes, Len(bs)) THEN Raised(pool, h, m, <<>>)
    ELSE IF dtypeArg # "None" /\ ~DtypeAccepted(pool, bs, axes, dtype)
    THEN Raised(pool, h, m, <<>>)
    ELSE IF comm.kind = "subcomm"
            /\ ~SubcommAccepted(comm, slab, axes, Len(bs))
    THEN Raised(pool, h, m, <<>>)
    ELSE WithStages(m, sid, bs, axes, dtype, comm,
                    SubcommDims(comm, slab, axes, Len(bs)),
                    Stages(pool, h, bs,
                           SubcommDims(comm, slab, axes, Len(bs)),
                           Shape(pool, bs), dtype, axes))

\* Lines 51-145, axes the order normalised.
WithOrder(pool, h, m, sid, bs, axes, dtypeArg, slab, comm) ==
    WithAxes(pool, h, m, sid, bs, axes, dtypeArg,
             IF dtypeArg = "None"
             THEN IF AxesValid(axes, Len(bs))
                  THEN InferDtype(pool, bs, axes) ELSE "None"
             ELSE dtypeArg,
             slab, comm)

NewTensorProductSpace(pool, h, m, sid, bs, axesArg, dtypeArg, slab, comm) ==
    IF ~ShapeValid(Shape(pool, bs)) THEN Raised(pool, h, m, <<>>)
    ELSE WithOrder(pool, h, m, sid, bs, NormalizeAxes(axesArg, Len(bs)),
                   dtypeArg, slab, comm)

(***************************************************************************)
(* The operations, as actions on the state.                                *)
(***************************************************************************)
Called(op, sid, b, args, ok) ==
    [op |-> op, sid |-> sid, b |-> b, args |-> args, ok |-> ok]

\* The state after an operation that returned R = [pool, heap, mem, trace].
Returns(R) ==
    /\ basis' = R.pool
    /\ heap' = R.heap
    /\ mem' = R.mem
    /\ trace' = R.trace
    /\ UNCHANGED <<proc, freed>>

\* T = TensorProductSpace(comm, bases, axes, dtype, slab), R its outcome.
Constructed(sid, args, R) ==
    /\ Returns(R)
    /\ space' = [space EXCEPT ![sid] = R.space]
    /\ call' = Called("__init__", sid, "-", args, R.ok)

TensorProductSpaceInit(sid, bs, axesArg, dtypeArg, slab, comm) ==
    /\ space[sid] = NoSpace
    /\ Constructed(sid,
                   [bases |-> bs, axes |-> axesArg, dtype |-> dtypeArg,
                    slab |-> slab, comm |-> comm],
                   NewTensorProductSpace(basis, heap, mem, sid, bs, axesArg,
                                         dtypeArg, slab, comm))

\* The pipeline P run, run its outcome.
Ran(func, sid, input, run) ==
    /\ mem' = run.mem
    /\ trace' = run.trace
    /\ call' = Called(func, sid, "-", <<input>>, TRUE)
    /\ UNCHANGED <<basis, heap, space, proc, freed>>

\* T.forward(u), T.backward(u_hat), T.scalar_product(u).
Forward(sid, input) ==
    /\ space[sid].built
    /\ Ran("forward", sid, input, RunPipeline(mem, space[sid].forward, input))

Backward(sid, input) ==
    /\ space[sid].built
    /\ Ran("backward", sid, input,
           RunPipeline(mem, space[sid].backward, input))

ScalarProduct(sid, input) ==
    /\ space[sid].built
    /\ Ran("scalar_product", sid, input,
           RunPipeline(mem, space[sid].scalar_product, input))

\* base.plan(shape, axis, dtype, {}) called on its own, r its outcome.
Planned(id, shape, axis, dtype, r) ==
    /\ Returns([pool |-> [basis EXCEPT ![id] = r.b], heap |-> r.heap,
                mem |-> ZeroFill(mem, r.new), trace |-> <<>>])
    /\ call' = Called("plan", "-", id,
                      [shape |-> shape, axis |-> axis, dtype |-> dtype], r.ok)
    /\ UNCHANGED space

PlanCall(id, shape, axis, dtype) ==
    /\ heap + 2 <= MaxBuf
    /\ Planned(id, shape, axis, dtype,
               Plan(basis[id], shape, axis, dtype, heap))

\* update_bcs(bc=bc) on the BoundaryValues bv: self.bc = list(bc), then
\* bcs[i] = bc[i] for each entry of a type it takes (NotImplementedError at
\* the first of another type), then bcs_final[:] = bcs.
UpdateBcsOf(bv, bc) ==
    IF bc[1].k = "other"
    THEN [ok |-> FALSE, bv |-> [bv EXCEPT !.bc = bc]]
    ELSE IF bc[2].k = "other"
    THEN [ok |-> FALSE, bv |-> [bv EXCEPT !.bc = bc, !.bcs[1] = bc[1]]]
    ELSE [ok |-> TRUE,
          bv |-> [bv EXCEPT !.bc = bc, !.bcs = bc, !.bcs_final = bc]]

\* base.bc.update_bcs(bc=bc)
UpdateBcs(id, bc) ==
    /\ IsDirichlet(basis[id].kind)
    /\ basis' = [basis EXCEPT ![id].bc = UpdateBcsOf(@, bc).bv]
    /\ call' = Called("update_bcs", "-", id, bc,
                      UpdateBcsOf(basis[id].bc, bc).ok)
    /\ trace' = <<>>
    /\ UNCHANGED <<heap, mem, space, proc, freed>>

\* base.bc.set_tensor_bcs(T) called on its own, r its outcome.
TensorBcsSet(id, sid, r) ==
    /\ Returns([pool |-> [basis EXCEPT ![id].bc = r.bv], heap |-> heap,
                mem |-> r.mem, trace |-> r.trace])
    /\ call' = Called("set_tensor_bcs", sid, id, <<>>, r.ok)
    /\ UNCHANGED space

SetTensorBcsCall(id, sid) ==
    /\ IsDirichlet(basis[id].kind)
    /\ space[sid].built
    /\ TensorBcsSet(id, sid,
                    SetTensorBcs(basis[id].bc, sid, space[sid], basis, mem))

(***************************************************************************)
(* The arguments tried.                                                    *)
(***************************************************************************)
\* axes: None, every duplicate-free order of some of the dimensions, and
\* orders with a negative, an out-of-range or a repeated entry.
AxesArgs(nd) ==
    {NoAxes} \cup {Axes(v) : v \in InjSeqs(0..(nd - 1))}
             \cup {Axes(<<-1>>), Axes(<<-nd - 1>>), Axes(<<nd>>),
                   Axes(<<0, 0>>), Axes(<<0, -nd>>), Axes(<<-1, 0>>)}

\* dtype: None, float, complex, int.
DtypeArgs == {"None", "d", "D", "i"}

\* comm: a communicator of each size, or a Subcomm of the caller with one
\* group per dimension or one too many.
CommArgs(nd) ==
    {Comm(p) : p \in 1..MaxProcs}
    \cup {Subcomm(d) : d \in {e \in [1..nd -> {1, MaxProcs}] :
                                 Prod(e) <= MaxProcs}}
    \cup {Subcomm([i \in 1..(nd + 1) |-> 1])}

\* bases: up to MaxDim distinct bases, in any order.
BasesArgs == {bs \in InjSeqs(BasisIds) : Len(bs) <= MaxDim}

\* The keyword arguments: dtype varied on one process, the decomposition
\* varied with the dtype left to be inferred.
KeywordArgs(nd) ==
    {[dtype |-> d, slab |-> FALSE, comm |-> Comm(1)] : d \in DtypeArgs}
    \cup {[dtype |-> "None", slab |-> sl, comm |-> c] :
             sl \in BOOLEAN, c \in CommArgs(nd)}

\* The processes of the largest group, by rank + 1.
Ranks == 1..MaxProcs

\* A process that is not in a call of eval.
Idle == [pc |-> "idle", sid |-> "-", cython |-> FALSE, n |-> 0,
         on |-> Comm(1), with |-> {}]

\* The sub-groups of the caller's Subcomm and of the Subcomm of each space,
\* and the redistributions of each space.
Resources ==
    [obj : {"subcomm"}, owner : SpaceIds \cup {"caller"}, k : {0}]
    \cup [obj : {"transfer"}, owner : SpaceIds, k : 0..(MaxDim - 1)]

\* The bases as constructed: N quadrature points each, the Fourier bases
\* with padding factor pad/4, the Dirichlet basis with boundary values bc.
InitWith(Ns, pads, bcs) ==
    /\ \E N \in Ns, pad \in pads, bc \in bcs :
           basis = [id \in BasisIds \cup DirichletIds |->
                       NewBasis(id, N, pad, bc)]
    /\ heap = 0
    /\ mem = <<>>
    /\ space = [sid \in SpaceIds |-> NoSpace]
    /\ call = Called("-", "-", "-", <<>>, TRUE)
    /\ trace = <<>>
    /\ proc = [r \in Ranks |-> Idle]
    /\ freed = [res \in Resources |-> 0]

Init == InitWith({MaxN}, {4, 6}, {<<Num(0), Num(0)>>})

\* The space sid constructed with any of the arguments.
Construct(sid) ==
    /\ space[sid] = NoSpace
    /\ \E bs \in BasesArgs :
         \E axesArg \in AxesArgs(Len(bs)), kw \in KeywordArgs(Len(bs)) :
            TensorProductSpaceInit(sid, bs, axesArg, kw.dtype, kw.slab,
                                   kw.comm)

Next ==
    \/ Construct("T")
    \/ Forward("T", UserData(1))
    \/ Backward("T", UserData(2))
    \/ ScalarProduct("T", UserData(1))

Spec == Init /\ [][Next]_vars

(***************************************************************************)
(* Properties of a constructed space: construction with any arguments.     *)
(***************************************************************************)
Built == {sid \in SpaceIds : space[sid].built}

Ndim(sid) == Len(space[sid].bases)

\* The basis of the last axis of the order given to the last __init__.
LastBasisKind(args) ==
    Kind(args.bases[Last(NormalizeAxes(args.axes, Len(args.bases))) + 1])

\* C1: on every constructed space the order of the axes, negative entries
\* normalised, is a permutation of 0..ndim-1: axes lists every dimension
\* exactly once.
C1_AxesIsPermutation ==
    \A sid \in Built :
        /\ Len(space[sid].axes) = Ndim(sid)
        /\ Range(space[sid].axes) = 0..(Ndim(sid) - 1)

\* C2: every constructed space has ndim stages and ndim-1 redistributions:
\* len(transfer) = len(xfftn) - 1 = ndim - 1.
C2_StageCount ==
    \A sid \in Built :
        /\ Len(space[sid].xfftn) = Ndim(sid)
        /\ Len(space[sid].transfer) = Len(space[sid].xfftn) - 1
        /\ Len(space[sid].transfer) = Ndim(sid) - 1

C4_DtypeInferredOrRejected ==
    call.op = "__init__" =>
        /\ (call.ok /\ call.args.dtype = "None") =>
              /\ space[call.sid].dtype \in ComplexChars
                    <=> LastBasisKind(call.args) = "C2C"
              /\ space[call.sid].dtype \in RealChars
                    <=> LastBasisKind(call.args) # "C2C"
        /\ (call.ok /\ call.args.dtype # "None") =>
              space[call.sid].dtype = call.args.dtype
        /\ (call.ok /\ call.args.dtype \in RealChars) =>
              LastBasisKind(call.args) # "C2C"
        /\ (call.ok /\ call.args.dtype \in ComplexChars) =>
              LastBasisKind(call.args) # "R2C"

C4_Witness ==
    /\ call.op = "__init__" /\ call.ok /\ call.args.dtype = "None"
    /\ call.args.axes = Axes(<<1, 0>>)
    /\ call.args.bases = <<"K1", "K3">>
    /\ space[call.sid].dtype = "D"

\* The stages and redistributions a run of the forward (or scalar product)
\* pipeline of the space sid is to execute, in order: stage i is the basis
\* of the axis i-th from the end of the order.
ForwardOrder(sid, func) ==
    LET L == Len(space[sid].axes)
    IN  [n \in 1..(2 * L - 1) |->
            IF n % 2 = 1
            THEN [op |-> "xfftn", i |-> n \div 2,
                  base |-> space[sid].bases[
                               space[sid].axes[L - n \div 2] + 1],
                  func |-> func]
            ELSE [op |-> "transfer", i |-> n \div 2 - 1, base |-> "-",
                  func |-> "forward"]]

\* The same stages and redistributions, last to first, for backward.
BackwardOrder(sid) ==
    LET L == Len(space[sid].axes)
    IN  [n \in 1..(2 * L - 1) |->
            IF n % 2 = 1
            THEN [op |-> "xfftn", i |-> n \div 2,
                  base |-> space[sid].bases[
                               space[sid].axes[n \div 2 + 1] + 1],
                  func |-> "backward"]
            ELSE [op |-> "transfer", i |-> L - 1 - n \div 2, base |-> "-",
                  func |-> "backward"]]

\* C5: forward executes the stages of the axes in the order axes[-1], ...,
\* axes[0], redistribution k between stage k and stage k+1 and none after
\* the last; scalar_product executes the same; backward executes the same
\* stages and redistributions in the reverse order, on the same arrays.
C5_PipelineOrder ==
    /\ call.op = "forward" => trace = ForwardOrder(call.sid, "forward")
    /\ call.op = "scalar_product" =>
          trace = ForwardOrder(call.sid, "scalar_product")
    /\ call.op = "backward" =>
          /\ trace = BackwardOrder(call.sid)
          /\ \A n \in 1..Len(trace) :
                trace[n].op = "xfftn" =>
                    LET b == space[call.sid].backward.xfftn[trace[n].i + 1]
                        f == space[call.sid].forward.xfftn[
                                 Len(space[call.sid].axes) - trace[n].i]
                    IN  /\ b.base = f.base
                        /\ b.inp = f.out
                        /\ b.out = f.inp
                        /\ b.axis = f.axis

C5_Witness ==
    /\ call.op = "backward"
    /\ Len(space[call.sid].axes) = 3
    /\ space[call.sid].axes # <<0, 1, 2>>
    /\ Len(trace) = 5

\* C6: on a constructed space, the output length of every stage along its
\* axis is the length along that axis of every redistribution built after
\* the stage and of the output pencil.
C6_ShapePropagates ==
    \A sid \in Built :
        \A j \in 1..Len(space[sid].xfftn) :
            LET stage == space[sid].forward.xfftn[j]
                olen == stage.oshape[stage.axis + 1]
            IN  /\ space[sid].pencil[2].shape[stage.axis + 1] = olen
                /\ \A k \in j..Len(space[sid].transfer) :
                      /\ space[sid].transfer[k].A.shape[stage.axis + 1] = olen
                      /\ space[sid].transfer[k].B.shape[stage.axis + 1] = olen

C6_Witness ==
    /\ space["T"].built
    /\ Len(space["T"].xfftn) = 3
    /\ LET stage == space["T"].forward.xfftn[1]
       IN  /\ stage.oshape[stage.axis + 1] # stage.ishape[stage.axis + 1]
           /\ space["T"].transfer[2].B.shape[stage.axis + 1]
                 = stage.oshape[stage.axis + 1]
           /\ space["T"].pencil[1].shape # space["T"].pencil[2].shape

(***************************************************************************)
(* Planning a basis on its own.                                            *)
(***************************************************************************)
\* shape: one or two dimensions of up to MaxN points.
ShapeArgs == {<<MaxN - 1>>, <<MaxN>>, <<MaxN, MaxN>>}

InitPlan == InitWith({MaxN}, {4}, {<<Num(0), Num(0)>>})

NextPlan ==
    \E id \in BasisIds, shape \in ShapeArgs, dtype \in {"d", "D"} :
        \E axis \in 0..(Len(shape) - 1) :
            PlanCall(id, shape, axis, dtype)

SpecPlan == InitPlan /\ [][NextPlan]_vars

\* The arrays of the plan state p.
Buffers(p) == IF p.planned THEN {p.U, p.V} ELSE {}

\* C7: plan on a planned basis of the Legendre family keeps the arrays it
\* has if and only if the shape, the axis and the dtype are the ones it was
\* planned with; with any of them different the arrays are replaced.
C7_PlanKeepsIffSame ==
    [][(/\ call'.op = "plan"
        /\ ~IsFourier(Kind(call'.b))
        /\ basis[call'.b].fwd.planned)
       => (Buffers(basis'[call'.b].fwd) = Buffers(basis[call'.b].fwd)
             <=> /\ call'.args.shape = basis[call'.b].fwd.shape
                 /\ call'.args.axis = basis[call'.b].fwd.axis
                 /\ call'.args.dtype = basis[call'.b].fwd.dtype)]_vars

(***************************************************************************)
(* Two spaces built from the same bases.                                   *)
(***************************************************************************)
\* The spaces of the tests: the default order or the reverse one, the
\* dtype inferred, the pencil decomposition of the processes.
SharedAxesArgs(nd) == {NoAxes, Axes([i \in 1..nd |-> nd - i])}

ConstructShared(sid) ==
    /\ space[sid] = NoSpace
    /\ \E bs \in BasesArgs \ {<<>>}, p \in 1..MaxProcs :
         \E axesArg \in SharedAxesArgs(Len(bs)) :
            TensorProductSpaceInit(sid, bs, axesArg, "None", FALSE, Comm(p))

InitShared == InitWith({MaxN}, {4}, {<<Num(0), Num(0)>>})

NextShared ==
    \/ ConstructShared("T")
    \/ space["T"].built /\ ConstructShared("TT")

SpecShared == InitShared /\ [][NextShared]_vars

\* The stages of the forward pipeline of a space.
StagesOf(sid) == Range(space[sid].forward.xfftn)

\* The arrays the pipelines of a space work on.
BuffersOf(sid) == UNION {{st.inp, st.out} : st \in StagesOf(sid)}

BcArgs == {<<Num(0), Num(0)>>, <<Num(1), Num(2)>>, <<Num(0), Num(1)>>}

\* The spaces tried: the Dirichlet basis K0 among the bases, every order
\* of all the axes, the dtype inferred, the pencil decomposition.
ConstructBcs(sid) ==
    /\ space[sid] = NoSpace
    /\ \E bs \in {b \in BasesArgs : "K0" \in Range(b)}, p \in 1..MaxProcs :
         \E axesArg \in {NoAxes} \cup
                        {Axes(v) : v \in {w \in InjSeqs(0..(Len(bs) - 1)) :
                                             Len(w) = Len(bs)}} :
            TensorProductSpaceInit(sid, bs, axesArg, "None", FALSE, Comm(p))

InitBcs == InitWith({MaxN}, {4}, BcArgs)

NextBcs ==
    \/ ConstructBcs("T")
    \/ \E bc \in BcArgs : UpdateBcs("K0", bc)
    \/ SetTensorBcsCall("K0", "T")
    \/ Forward("T", UserData(1))

SpecBcs == InitBcs /\ [][NextBcs]_vars

\* The BoundaryValues of the Dirichlet basis, and the space it was wired to.
Bv == basis["K0"].bc

BvSpace == space[Bv.T]

\* bcs and bcs_final hold what set_tensor_bcs computed from boundary
\* values that are not zero on a constructed space.
BcsComputed ==
    /\ Bv.T \in SpaceIds
    /\ BvSpace.built
    /\ Bv.bcs[1].k # "num"

\* The stage of the Dirichlet basis in the forward pipeline, the first
\* stage being 1.
DirichletStage == SetMin(DirichletStages(BvSpace, basis))

\* The forward transforms of the stages in keep, in the order of the
\* pipeline, up to stage j.
RECURSIVE Via(_, _, _)
Via(T, keep, j) ==
    IF j = 0 THEN <<>>
    ELSE Via(T, keep, j - 1)
         \o (IF j \in keep THEN <<<<T.forward.xfftn[j].base, "forward">>>>
             ELSE <<>>)

\* The stages of periodic (Fourier) bases.
PeriodicStages(T) ==
    {j \in 1..Len(T.axes) : IsFourier(Kind(T.forward.xfftn[j].base))}

\* The stages of bases that are not Dirichlet bases.
OtherStages(T) ==
    {j \in 1..Len(T.axes) : ~IsDirichlet(Kind(T.forward.xfftn[j].base))}

\* bcs and bcs_final are the boundary values pushed through the stages
\* before the Dirichlet one and through the stages in final.
BcsPushedThrough(final) ==
    \A i \in 1..2 :
        /\ Bv.bcs[i].v = Bv.bc[i].v
        /\ Bv.bcs_final[i].v = Bv.bc[i].v
        /\ Bv.bcs[i].via =
              Via(BvSpace, 1..(DirichletStage - 1), Len(BvSpace.axes))
        /\ Bv.bcs_final[i].via = Via(BvSpace, final, Len(BvSpace.axes))

\* C9: after set_tensor_bcs with boundary values that are not zero, bcs
\* equals bcs_final when the Dirichlet stage is the last one, they differ
\* only when a periodic stage comes after the Dirichlet stage, bcs is the
\* boundary data pushed through the stages before the Dirichlet stage and
\* bcs_final the data pushed through every periodic stage.
C9_BcsFinalThroughPeriodic ==
    BcsComputed =>
        /\ DirichletStage = Len(BvSpace.axes) => Bv.bcs = Bv.bcs_final
        /\ Bv.bcs # Bv.bcs_final =>
              \E j \in PeriodicStages(BvSpace) : j > DirichletStage
        /\ BcsPushedThrough(PeriodicStages(BvSpace))

\* C9, amended: the same with every stage that is not the Dirichlet one
\* in the place of the periodic stages, a stage of a Legendre basis
\* included: bcs and bcs_final differ only when such a stage comes after
\* the Dirichlet stage, and bcs_final is the data pushed through all of
\* them.
C9_BcsFinalThroughOthers ==
    BcsComputed =>
        /\ DirichletStage = Len(BvSpace.axes) => Bv.bcs = Bv.bcs_final
        /\ Bv.bcs # Bv.bcs_final =>
              \E j \in OtherStages(BvSpace) : j > DirichletStage
        /\ BcsPushedThrough(OtherStages(BvSpace))

C9_Witness ==
    /\ BcsComputed
    /\ call.op = "set_tensor_bcs" /\ call.ok
    /\ Len(BvSpace.axes) = 3
    /\ DirichletStage = 2
    /\ Bv.bcs # Bv.bcs_final
    /\ Bv.bcs[1].via # <<>>

\* The boundary values given are both zero.
BothZero(bv) == bv.bc = <<Num(0), Num(0)>>

\* C10: with both boundary values zero set_tensor_bcs, called on its own
\* or by the constructor, leaves bcs and bcs_final zero, executes no
\* transform and no redistribution and writes to no array: the arrays
\* there were keep their content and the new ones stay zero-filled.
C10_ZeroBcsFastPath ==
    [][(/\ call'.op \in {"set_tensor_bcs", "__init__"}
        /\ call'.ok
        /\ BothZero(basis["K0"].bc))
       => /\ basis'["K0"].bc.bcs = <<Num(0), Num(0)>>
          /\ basis'["K0"].bc.bcs_final = <<Num(0), Num(0)>>
          /\ trace' = <<>>
          /\ \A buf \in DOMAIN mem' :
                mem'[buf] = IF buf \in DOMAIN mem THEN mem[buf] ELSE Zero]_vars

C10_Witness ==
    /\ call.op = "set_tensor_bcs" /\ call.ok
    /\ BothZero(Bv)
    /\ Bv.bcs = <<Num(0), Num(0)>>
    /\ trace = <<>>
    /\ Len(space["T"].axes) = 3
    /\ \A buf \in BuffersOf("T") : mem[buf] # Zero

(***************************************************************************)
(* A space of four bases: the Dirichlet basis with up to three stages      *)
(* before it.                                                              *)
(***************************************************************************)
\* bases: the four bases in any order, axes left to the default.
DeepBasesArgs == {bs \in InjSeqs(BasisIds) : Range(bs) = BasisIds}

ConstructDeep(sid) ==
    /\ space[sid] = NoSpace
    /\ \E bs \in DeepBasesArgs, p \in 1..MaxProcs :
          TensorProductSpaceInit(sid, bs, NoAxes, "None", FALSE, Comm(p))

InitDeep == InitWith({MaxN}, {4}, BcArgs)

NextDeep ==
    \/ ConstructDeep("T")
    \/ Forward("T", UserData(1))
    \/ SetTensorBcsCall("K0", "T")

SpecDeep == InitDeep /\ [][NextDeep]_vars

\* C11: no constructed space has three or more stages before the stage of
\* its Dirichlet basis: such a space is rejected by __init__ whatever the
\* boundary values are.
C11_DeepDirichletRejected ==
    \A sid \in Built :
        DirichletStages(space[sid], basis) # {}
            => NumberOfBasesAfterDirichlet(space[sid], basis) <= 2

(***************************************************************************)
(* apply_before and apply_after on a coefficient array u.  u is the array  *)
(* along the axis of the Dirichlet basis, one value per coefficient slot;  *)
(* the other axes are broadcast.                                           *)
(***************************************************************************)
\* base.sl(a): the position a along the axis of the basis, numpy style
\* (negative from the end), as an index of a sequence of n slots.
Sl(a, n) == IF a >= 0 THEN a + 1 ELSE n + a + 1

\* The value of a slot of u: the value `is` written last, a number of the
\* caller or a boundary coefficient, and the terms added to it since.
Slot(c) == [is |-> c, add |-> <<>>]

\* scale*(b0 + b1) for sign = 1 and scale*(b0 - b1) for sign = -1.
Term(scale, b0, sign, b1) ==
    [scale |-> scale, b0 |-> b0, sign |-> sign, b1 |-> b1]

\* x += t
Plus(x, t) == [x EXCEPT !.add = Append(@, t)]

\* The coefficients apply_before and apply_after take: `final is True`.
Coefficients(bv, final) == IF final = TRUE THEN bv.bcs_final ELSE bv.bcs

\* u[self.sl0] += ...; u[self.sl1] += ... with the coefficients b.
AddBefore(u, b, scales) ==
    [[u EXCEPT ![Sl(0, Len(u))] = Plus(@, Term(scales[1], b[1], 1, b[2]))]
        EXCEPT ![Sl(1, Len(u))] = Plus(@, Term(scales[2], b[1], -1, b[2]))]

\* A variant that never takes bcs_final.
ApplyBeforeNotFinal(bv, u, final, scales) == AddBefore(u, bv.bcs, scales)

\* apply_before(u, final, scales): u as the call leaves it.
ApplyBefore(bv, u, final, scales) ==
    AddBefore(u, Coefficients(bv, final), scales)

\* u[self.slm2] = ...; u[self.slm1] = ... with the coefficients b.
SetAfter(u, b) ==
    [[u EXCEPT ![Sl(-2, Len(u))] = Slot(b[1])]
        EXCEPT ![Sl(-1, Len(u))] = Slot(b[2])]

\* A variant that adds the coefficients to the two slots.
ApplyAfterAdding(bv, u, final) ==
    [[u EXCEPT ![Sl(-2, Len(u))] =
                   Plus(@, Term(1, Coefficients(bv, final)[1], 1, Num(0)))]
        EXCEPT ![Sl(-1, Len(u))] =
                   Plus(@, Term(1, Coefficients(bv, final)[2], 1, Num(0)))]

\* apply_after(u, final): u as the call leaves it.
ApplyAfter(bv, u, final) == SetAfter(u, Coefficients(bv, final))

\* A call of apply_before or apply_after returned: without the slices of
\* set_slices the call raises and u is as it was.
Applied(op, id, args, out) ==
    /\ call' = Called(op, "-", id,
                      [args EXCEPT !.out = IF basis[id].bc.sliced THEN out
                                           ELSE args.u],
                      basis[id].bc.sliced)
    /\ trace' = <<>>
    /\ UNCHANGED <<basis, heap, mem, space, proc, freed>>

\* base.bc.apply_before(u, final, scales)
ApplyBeforeCall(id, u, final, scales) ==
    /\ IsDirichlet(basis[id].kind)
    /\ Applied("apply_before", id,
               [u |-> u, final |-> final, scales |-> scales, out |-> u],
               ApplyBefore(basis[id].bc, u, final, scales))

\* base.bc.apply_after(u, final)
ApplyAfterCall(id, u, final) ==
    /\ IsDirichlet(basis[id].kind)
    /\ Applied("apply_after", id,
               [u |-> u, final |-> final, scales |-> <<>>, out |-> u],
               ApplyAfter(basis[id].bc, u, final))

\* u: an array of N coefficients with distinct values, or the array the
\* last apply_after left.
UArgs(id) ==
    {[i \in 1..basis[id].N |-> Slot(Num(10 * i))]}
    \cup (IF call.op = "apply_after" THEN {call.args.out} ELSE {})

\* scales: the weights of the two slots.
ScalesArgs == {<<1, 1>>, <<2, 3>>}

ConstructApply(sid) ==
    /\ space[sid] = NoSpace
    /\ \E bs \in {b \in BasesArgs : "K0" \in Range(b) /\ Len(b) <= 2} :
          TensorProductSpaceInit(sid, bs, NoAxes, "None", FALSE, Comm(1))

InitApply == InitWith({MaxN}, {4}, {<<Num(0), Num(0)>>})

NextApply ==
    \/ ConstructApply("T")
    \/ \E bc \in BcArgs : UpdateBcs("K0", bc)
    \/ SetTensorBcsCall("K0", "T")
    \/ \E u \in UArgs("K0"), final \in BOOLEAN, scales \in ScalesArgs :
          ApplyBeforeCall("K0", u, final, scales)
    \/ \E u \in UArgs("K0"), final \in BOOLEAN :
          ApplyAfterCall("K0", u, final)

SpecApply == InitApply /\ [][NextApply]_vars

EvalCython(T) == [n |-> 1, on |-> T.comm]

\* _eval_python: the loop over the bases, then one allreduce on self.comm.
EvalPython(T) == [n |-> 1, on |-> T.comm]

\* eval(points, coefficients, output_array, cython)
Eval(T, cython) == IF cython THEN EvalCython(T) ELSE EvalPython(T)

\* The process r calls T.eval.
EvalCall(sid, r, cython) ==
    /\ space[sid].built
    /\ r <= space[sid].comm.size
    /\ proc[r].pc = "idle"
    /\ proc' = [proc EXCEPT ![r] = [Idle EXCEPT !.pc = "local", !.sid = sid,
                                               !.cython = cython]]
    /\ UNCHANGED <<basis, heap, mem, space, call, trace, freed>>

\* The process r at its call of allreduce, e what the path does: a Subcomm
\* is a tuple of communicators and has no allreduce.
AtAllreduce(r, e) ==
    proc' = [proc EXCEPT ![r].n = e.n, ![r].on = e.on,
                         ![r].pc = IF e.n = 0 THEN "returned"
                                   ELSE IF e.on.kind = "subcomm" THEN "raised"
                                   ELSE "allreduce"]

\* The process r evaluates its local part and reaches the reduction.
EvalLocal(r) ==
    /\ proc[r].pc = "local"
    /\ AtAllreduce(r, Eval(space[proc[r].sid], proc[r].cython))
    /\ UNCHANGED <<basis, heap, mem, space, call, trace, freed>>

\* Every process of the group of sid has called allreduce: the sum of all
\* the contributions is returned to each.
EvalReduce(sid) ==
    /\ space[sid].built
    /\ \A r \in 1..space[sid].comm.size :
          proc[r].pc = "allreduce" /\ proc[r].sid = sid
    /\ proc' = [r \in Ranks |->
                  IF r <= space[sid].comm.size
                  THEN [proc[r] EXCEPT !.pc = "returned",
                                       !.with = 1..space[sid].comm.size]
                  ELSE proc[r]]
    /\ UNCHANGED <<basis, heap, mem, space, call, trace, freed>>

\* eval returns, or its exception leaves it.
EvalReturn(r) ==
    /\ proc[r].pc \in {"returned", "raised"}
    /\ proc' = [proc EXCEPT ![r] = Idle]
    /\ UNCHANGED <<basis, heap, mem, space, call, trace, freed>>

\* The spaces eval is called on: one, two or three bases, on a communicator
\* or on a Subcomm of the caller.
ConstructEval(sid) ==
    /\ space[sid] = NoSpace
    /\ \E bs \in {<<"K1">>, <<"K0", "K2">>, <<"K3", "K1">>,
                  <<"K0", "K1", "K2">>} :
          \E comm \in CommArgs(Len(bs)) :
             TensorProductSpaceInit(sid, bs, NoAxes, "None", FALSE, comm)

InitEval == InitWith({MaxN}, {4}, {<<Num(0), Num(0)>>})

NextEval ==
    \/ ConstructEval("T")
    \/ \E r \in Ranks, cython \in BOOLEAN : EvalCall("T", r, cython)
    \/ \E r \in Ranks : EvalLocal(r)
    \/ EvalReduce("T")
    \/ \E r \in Ranks : EvalReturn(r)

SpecEval == InitEval /\ [][NextEval]_vars

\* C14: a process that has gone through the local part of eval has called
\* allreduce exactly once, on the communicator of all the processes of the
\* space, on either path and for every number of bases.
C14_OneReductionOnGroup ==
    \A r \in Ranks :
        proc[r].pc \in {"allreduce", "returned", "raised"}
            => /\ proc[r].n = 1
               /\ proc[r].on.kind = "comm"
               /\ proc[r].on.size = Prod(space[proc[r].sid].subcomm)

(***************************************************************************)
(* destroy.                                                                *)
(***************************************************************************)
\* self.subcomm: the Subcomm of the caller when the space was given one,
\* the Subcomm the space made itself otherwise.
SubcommOf(sid, T) ==
    [obj |-> "subcomm",
     owner |-> IF T.comm.kind = "subcomm" THEN "caller" ELSE sid,
     k |-> 0]

\* self.transfer: the redistributions of the space.
TransfersOf(sid, T) ==
    {[obj |-> "transfer", owner |-> sid, k |-> k - 1] :
        k \in 1..Len(T.transfer)}

\* The objects destroy calls destroy on: self.subcomm and every member of
\* self.transfer.
Destroyed(sid, T) == {SubcommOf(sid, T)} \cup TransfersOf(sid, T)

\* T.destroy()
Destroy(sid) ==
    /\ space[sid].built
    /\ freed[SubcommOf(sid, space[sid])] < MaxDestroy
    /\ freed' = [res \in Resources |->
                    IF res \in Destroyed(sid, space[sid]) THEN freed[res] + 1
                    ELSE freed[res]]
    /\ call' = Called("destroy", sid, "-", <<>>, TRUE)
    /\ trace' = <<>>
    /\ UNCHANGED <<basis, heap, mem, space, proc>>

\* The spaces destroyed: T and TT, each on a communicator or on a Subcomm of
\* the caller.
ConstructDestroy(sid) ==
    /\ space[sid] = NoSpace
    /\ \E bs \in {<<"K1">>, <<"K0", "K2">>, <<"K3", "K1", "K2">>} :
          \E comm \in CommArgs(Len(bs)) :
             TensorProductSpaceInit(sid, bs, NoAxes, "None", FALSE, comm)

InitDestroy == InitWith({MaxN}, {4}, {<<Num(0), Num(0)>>})

NextDestroy ==
    \/ \E sid \in SpaceIds : ConstructDestroy(sid)
    \/ \E sid \in SpaceIds : Destroy(sid)

SpecDestroy == InitDestroy /\ [][NextDestroy]_vars

\* C16: destroy never releases what the caller handed in: the Subcomm of
\* the caller receives no destroy call from any space, and is there for
\* the caller and for the other spaces built on it.
C16_CallerSubcommKept ==
    freed[[obj |-> "subcomm", owner |-> "caller", k |-> 0]] = 0

(***************************************************************************)
(* The quadrature of a basis of the Legendre family and its mass matrix.   *)
(***************************************************************************)
\* The quadratures points_and_weights of the Legendre family knows.
LegendreQuads == {"LG", "GL"}

\* LegendreBase.__init__(N, quad) on the new object b: SpectralBase.__init__
\* stores N and quad as they come.
LegendreBaseInit(b, N, quad) ==
    [ok |-> TRUE, b |-> [b EXCEPT !.N = N, !.quad = quad]]

\* K = Basis(N, quad) or ShenDirichletBasis(N, quad): id names the new
\* object when the constructor returns it.
Made(id, N, quad, r) ==
    /\ basis' = [basis EXCEPT ![id] = IF r.ok THEN r.b ELSE @]
    /\ call' = Called("Basis", "-", id, [N |-> N, quad |-> quad], r.ok)
    /\ trace' = <<>>
    /\ UNCHANGED <<heap, mem, space, proc, freed>>

BasisInit(id, N, quad) ==
    /\ ~IsFourier(Kind(id))
    /\ Made(id, N, quad,
            LegendreBaseInit(NewBasis(id, N, 2, <<Num(0), Num(0)>>), N, quad))

\* base.points_and_weights(N): NotImplementedError for any other tag.
PointsAndWeights(id) ==
    /\ ~IsFourier(Kind(id))
    /\ call' = Called("points_and_weights", "-", id, <<>>,
                      basis[id].quad \in LegendreQuads)
    /\ trace' = <<>>
    /\ UNCHANGED <<basis, heap, mem, space, proc, freed>>

\* base.quad = quad, base.N = N: the attributes are plain ones.
SetQuad(id, quad) ==
    /\ ~IsFourier(Kind(id))
    /\ basis' = [basis EXCEPT ![id].quad = quad]
    /\ call' = Called("quad", "-", id, quad, TRUE)
    /\ trace' = <<>>
    /\ UNCHANGED <<heap, mem, space, proc, freed>>

SetN(id, N) ==
    /\ ~IsFourier(Kind(id))
    /\ basis' = [basis EXCEPT ![id].N = N]
    /\ call' = Called("N", "-", id, N, TRUE)
    /\ trace' = <<>>
    /\ UNCHANGED <<heap, mem, space, proc, freed>>

\* B((self, 0), (self, 0)): the mass matrix of the basis as it is now.
MassMatrix(b) == [built |-> TRUE, quad |-> b.quad, N |-> b.N]

\* Lines 264-266: the matrix is built when there is none, for an array of
\* N entries along the axis.
FirstMass(b, len) ==
    IF b.mass.built THEN [ok |-> TRUE, m |-> b.mass, builds |-> 0]
    ELSE IF b.N = len THEN [ok |-> TRUE, m |-> MassMatrix(b), builds |-> 1]
    ELSE [ok |-> FALSE, m |-> b.mass, builds |-> 0]

\* Lines 268-270: the matrix is built again when its quadrature is not the
\* one of the basis or its size not the length of the array.
CheckedMass(b, len, f) ==
    IF f.ok /\ (f.m.quad # b.quad \/ f.m.N # len)
    THEN [ok |-> TRUE, m |-> MassMatrix(b), builds |-> f.builds + 1]
    ELSE f

\* apply_inverse_mass(fk, axis), len the length of fk along axis: the
\* matrix it solves with and the matrices it has built.
ApplyInverseMass(b, len) == CheckedMass(b, len, FirstMass(b, len))

InverseMassApplied(id, len, r) ==
    /\ basis' = [basis EXCEPT ![id].mass = r.m]
    /\ call' = Called("apply_inverse_mass", "-", id,
                      [len |-> len, builds |-> r.builds, used |-> r.m], r.ok)
    /\ trace' = <<>>
    /\ UNCHANGED <<heap, mem, space, proc, freed>>

ApplyInverseMassCall(id, len) ==
    /\ ~IsFourier(Kind(id))
    /\ InverseMassApplied(id, len, ApplyInverseMass(basis[id], len))

\* N and the length of an array: two sizes.  quad: the two quadratures of
\* the family, one of another family and one of no family.
SizeArgs == {MaxN - 1, MaxN}

QuadArgs == LegendreQuads \cup {"GC", "XX"}

InitBasis == InitWith({MaxN}, {4}, {<<Num(0), Num(0)>>})

NextBasis ==
    \E id \in {"K0", "K3"} :
        \/ \E N \in SizeArgs, quad \in QuadArgs : BasisInit(id, N, quad)
        \/ PointsAndWeights(id)
        \/ \E quad \in LegendreQuads : SetQuad(id, quad)
        \/ \E N \in SizeArgs : SetN(id, N)
        \/ \E len \in SizeArgs : ApplyInverseMassCall(id, len)

SpecBasis == InitBasis /\ [][NextBasis]_vars

\* C17: no constructor of the Legendre family returns a basis for a
\* quadrature other than "LG" and "GL": the call fails.
C17_UnsupportedQuadRejected ==
    (call.op = "Basis" /\ call.ok) => call.args.quad \in LegendreQuads

\* C18: apply_inverse_mass builds the mass matrix on the first call, builds
\* none when it follows a call for the same length with the quadrature as
\* it was, and solves with a matrix of the quadrature the basis has now
\* and of the size of the array along the axis.
C18_MassMatrixCached ==
    [][(call'.op = "apply_inverse_mass" /\ call'.ok)
       => LET b == basis[call'.b]
              a == call'.args
          IN  /\ ~b.mass.built => a.builds = 1
              /\ (/\ call.op = "apply_inverse_mass" /\ call.ok
                  /\ call.b = call'.b
                  /\ call.args.len = a.len) => a.builds = 0
              /\ a.used = basis'[call'.b].mass
              /\ a.used.quad = b.quad
              /\ a.used.N = a.len]_vars

(***************************************************************************)
(* Padding and truncation of the Fourier bases, on arrays of one axis: an  *)
(* array is a sequence of complex numbers, position p of numpy being       *)
(* entry p + 1.  The numbers tried are multiples of 4, so that *= 0.5 is   *)
(* exact on them as it is on floats.                                       *)
(***************************************************************************)
Cx(re, im) == [re |-> re, im |-> im]

\* x.real, x + y, x *= 0.5, x *= 2
RealPart(x) == Cx(x.re, 0)

CxAdd(x, y) == Cx(x.re + y.re, x.im + y.im)

Halved(x) == Cx(x.re \div 2, x.im \div 2)

Doubled(x) == Cx(2 * x.re, 2 * x.im)

\* array.fill(0) on an array of n entries
Zeros(n) == [i \in 1..n |-> Cx(0, 0)]

\* A bound of a slice on an axis of n entries: negative from the end,
\* clipped to the axis.
SliceBound(i, n) ==
    IF i < 0 THEN (IF n + i < 0 THEN 0 ELSE n + i)
    ELSE (IF i > n THEN n ELSE i)

\* slice(start, stop) and slice(start, None) on an axis of n entries: the
\* positions lo .. hi-1.
PySlice(start, stop, n) ==
    [lo |-> SliceBound(start, n), hi |-> SliceBound(stop, n)]

SliceFrom(start, n) == [lo |-> SliceBound(start, n), hi |-> n]

\* a[sl]
Read(a, sl) == [i \in 1..(sl.hi - sl.lo) |-> a[sl.lo + i]]

\* a[sl] = vals (add = FALSE) or a[sl] += vals (add = TRUE) on the array of
\* r = [ok, a]: vals of the length of the slice, or one value broadcast;
\* ValueError otherwise.
WriteSlice(r, sl, vals, add) ==
    IF ~r.ok THEN r
    ELSE IF sl.hi - sl.lo <= 0 /\ Len(vals) <= 1 THEN r
    ELSE IF Len(vals) # sl.hi - sl.lo /\ Len(vals) # 1
    THEN [ok |-> FALSE, a |-> r.a]
    ELSE [ok |-> TRUE,
          a |-> [i \in 1..Len(r.a) |->
                   IF sl.lo < i /\ i <= sl.hi
                   THEN (IF add
                         THEN CxAdd(r.a[i],
                                    vals[IF Len(vals) = 1 THEN 1 ELSE i - sl.lo])
                         ELSE vals[IF Len(vals) = 1 THEN 1 ELSE i - sl.lo])
                   ELSE r.a[i]]]

\* The entry of the position p of numpy, negative from the end; 0 when the
\* position is not on the axis (IndexError).
EntryOf(p, n) ==
    IF p < 0 THEN (IF n + p < 0 THEN 0 ELSE n + p + 1)
    ELSE (IF p >= n THEN 0 ELSE p + 1)

\* a[p] = a[p].real (how = "real"), a[p] *= 0.5 ("half"), a[p] *= 2 ("double")
AtEntry(r, e, how) ==
    IF ~r.ok THEN r
    ELSE IF e = 0 THEN [ok |-> FALSE, a |-> r.a]
    ELSE [ok |-> TRUE,
          a |-> [r.a EXCEPT ![e] = CASE how = "real" -> RealPart(@)
                                     [] how = "half" -> Halved(@)
                                     [] how = "double" -> Doubled(@)]]

\* R2CBasis._padding_backward(trunc_array, padded_array): the array
\* padded_array holds afterwards, [ok, a].
R2CNyquist(b, n, r, how) ==
    IF b.N % 2 = 0
    THEN AtEntry(AtEntry(r, EntryOf(n - 1, Len(r.a)), "real"),
                 EntryOf(n - 1, Len(r.a)), how)
    ELSE r

R2CPaddingBackward(b, trunc, padded) ==
    IF b.pad > 4
    THEN R2CNyquist(b, Len(trunc),
                    WriteSlice([ok |-> TRUE, a |-> Zeros(Len(padded))],
                               PySlice(0, Len(trunc), Len(padded)),
                               Read(trunc, PySlice(0, Len(trunc), Len(trunc))),
                               FALSE),
                    "half")
    ELSE [ok |-> TRUE, a |-> padded]

\* R2CBasis._truncation_forward(padded_array, trunc_array): the array
\* trunc_array holds afterwards.
R2CTruncationForward(b, padded, trunc) ==
    IF b.pad > 4
    THEN R2CNyquist(b, Len(trunc),
                    WriteSlice([ok |-> TRUE, a |-> Zeros(Len(trunc))],
                               PySlice(0, Len(trunc), Len(trunc)),
                               Read(padded, PySlice(0, Len(trunc), Len(padded))),
                               FALSE),
                    "double")
    ELSE [ok |-> TRUE, a |-> trunc]

\* C2CBasis._padding_backward(trunc_array, padded_array)
C2CNyquist(b, n, r) ==
    IF b.N % 2 = 0
    THEN AtEntry(AtEntry(r, EntryOf(n \div 2, Len(r.a)), "half"),
                 EntryOf(-(n \div 2), Len(r.a)), "half")
    ELSE r

C2CPaddingBackward(b, trunc, padded) ==
    IF b.pad > 4
    THEN C2CNyquist(b, Len(trunc),
           WriteSlice(
             WriteSlice([ok |-> TRUE, a |-> Zeros(Len(padded))],
                        PySlice(0, Len(trunc) \div 2 + 1, Len(padded)),
                        Read(trunc, PySlice(0, Len(trunc) \div 2 + 1, Len(trunc))),
                        FALSE),
             SliceFrom(-(Len(trunc) \div 2), Len(padded)),
             Read(trunc, SliceFrom(-(Len(trunc) \div 2), Len(trunc))),
             FALSE))
    ELSE [ok |-> TRUE, a |-> padded]

\* C2CBasis._truncation_forward(padded_array, trunc_array)
C2CTruncationForward(b, padded, trunc) ==
    IF b.pad > 4
    THEN WriteSlice(
           WriteSlice([ok |-> TRUE, a |-> Zeros(Len(trunc))],
                      PySlice(0, Len(trunc) \div 2 + 1, Len(trunc)),
                      Read(padded, PySlice(0, Len(trunc) \div 2 + 1, Len(padded))),
                      FALSE),
           SliceFrom(-(Len(trunc) \div 2), Len(trunc)),
           Read(padded, SliceFrom(-(Len(trunc) \div 2), Len(padded))),
           TRUE)
    ELSE [ok |-> TRUE, a |-> trunc]

\* The lengths, along the axis of the basis, of the arrays of its plan for
\* the physical length phys: the padded spectral array (the output of the
\* FFT) and the truncated one (_get_truncarray).
PaddedLen(b, phys) == IF b.kind = "R2C" THEN phys \div 2 + 1 ELSE phys

TruncLen(b, phys) ==
    IF b.kind = "R2C" THEN R2CTruncLen(phys, b.pad)
    ELSE C2CTruncLen(phys, b.pad)

\* The physical lengths a basis is planned for: np.round(N*padding_factor)
\* by TensorProductSpace.shape(), floor(padding_factor*N) by plan=True.
PhysLens(b) == {PhysLen(b), (b.N * b.pad) \div 4}

PaddingBackward(b, trunc, padded) ==
    IF b.kind = "R2C" THEN R2CPaddingBackward(b, trunc, padded)
    ELSE C2CPaddingBackward(b, trunc, padded)

TruncationForward(b, padded, trunc) ==
    IF b.kind = "R2C" THEN R2CTruncationForward(b, padded, trunc)
    ELSE C2CTruncationForward(b, padded, trunc)

\* The state after a call on arrays: u_hat the coefficients the round trip
\* started from, r = [ok, a] the array written.
Padded(op, id, u_hat, phys, r) ==
    /\ call' = Called(op, "-", id,
                      [u |-> u_hat, phys |-> phys, out |-> r.a], r.ok)
    /\ trace' = <<>>
    /\ UNCHANGED <<basis, heap, mem, space, proc, freed>>

\* basis._padding_backward(u_hat, padded_array), padded_array uninitialized
\* memory (here: zeros).
PaddingBackwardCall(id, phys, u_hat) ==
    Padded("_padding_backward", id, u_hat, phys,
           PaddingBackward(basis[id], u_hat,
                           Zeros(PaddedLen(basis[id], phys))))

\* basis._truncation_forward(padded_array, trunc_array) on the array the
\* last _padding_backward wrote, trunc_array of the length of u_hat.
TruncationForwardCall(id) ==
    /\ call.op = "_padding_backward"
    /\ call.b = id
    /\ call.ok
    /\ Padded("_truncation_forward", id, call.args.u, call.args.phys,
              TruncationForward(basis[id], call.args.out,
                                Zeros(Len(call.args.u))))

\* The coefficients tried, n of them: each a real or a complex number.
UHatArgs(n) == [1..n -> {Cx(4, 0), Cx(8, 12)}]

\* The padding factors tried: 1.5 and 2.
PadArgs == {6, 8}

InitPad == InitWith(1..MaxN, PadArgs, {<<Num(0), Num(0)>>})

NextPad ==
    \E id \in {"K1", "K2"} :
        \/ \E phys \in PhysLens(basis[id]) :
             \E u_hat \in UHatArgs(TruncLen(basis[id], phys)) :
                 PaddingBackwardCall(id, phys, u_hat)
        \/ TruncationForwardCall(id)

SpecPad == InitPad /\ [][NextPad]_vars

\* C20: for a Fourier basis with padding factor > 1, _truncation_forward
\* applied to the output of _padding_backward returns the original
\* coefficients at every index, for every N >= 1; for the real-to-complex
\* basis with even N the last (Nyquist) coefficient is taken real.
C20_TruncationUndoesPadding ==
    (/\ call.op = "_truncation_forward"
     /\ basis[call.b].pad > 4
     /\ (basis[call.b].kind = "R2C" /\ basis[call.b].N % 2 = 0
            => call.args.u[Len(call.args.u)].im = 0))
    => (call.ok /\ call.args.out = call.args.u)

(***************************************************************************)
(* Evaluation of a Legendre ShenDirichletBasis at the endpoints x = 1 and  *)
(* x = -1 of the reference domain, where L_k(x) = x^k.  Values are kept    *)
(* doubled, so that the factors 1/2 stay in the integers.                  *)
(***************************************************************************)
RECURSIVE SeqSum(_)
SeqSum(s) == IF s = <<>> THEN 0 ELSE s[1] + SeqSum(Tail(s))

\* Column k of leg.legvander(x, N-1), at an endpoint x.
LegAt(k, x) == IF x = 1 \/ k % 2 = 0 THEN 1 ELSE -1

\* leg.legval(x, c)
Legval(x, c) == SeqSum([k \in 1..Len(c) |-> c[k] * LegAt(k - 1, x)])

\* ShenDirichletBasis.get_vandermonde_basis(V), unscaled: the row of P of
\* the point x, doubled.
GetVandermondeBasis(b, x) ==
    [k \in 1..b.N |->
       IF k <= b.N - 2 THEN 2 * (LegAt(k - 1, x) - LegAt(k + 1, x))
       ELSE IF k = b.N - 1 THEN LegAt(0, x) + LegAt(1, x)
       ELSE LegAt(0, x) - LegAt(1, x)]

\* vandermonde_evaluate_expansion_all at the point x: np.dot(P, fk), doubled.
VandermondeEvaluate(b, x, fk) ==
    SeqSum([k \in 1..b.N |-> GetVandermondeBasis(b, x)[k] * fk[k]])

\* ShenDirichletBasis.eval(x, fk), unscaled, doubled; w_hat a zero array
\* with w_hat[2:] = fk[:-2].
ShenDirichletEval(b, x, fk) ==
    2 * Legval(x, SubSeq(fk, 1, b.N - 2))
    - 2 * Legval(x, [k \in 1..b.N |-> IF k >= 3 THEN fk[k - 2] ELSE 0])
    + (fk[b.N] * (1 + x) + fk[b.N - 1] * (1 - x))

\* The expansion fk evaluated at the endpoint x, by eval or by the
\* Vandermonde basis.
EndpointCall(id, x, fk, vander) ==
    /\ IsDirichlet(Kind(id))
    /\ call' = Called(IF vander THEN "vandermonde_evaluate" ELSE "eval",
                      "-", id,
                      [x |-> x, fk |-> fk,
                       out |-> IF vander
                               THEN VandermondeEvaluate(basis[id], x, fk)
                               ELSE ShenDirichletEval(basis[id], x, fk)],
                      TRUE)
    /\ trace' = <<>>
    /\ UNCHANGED <<basis, heap, mem, space, proc, freed>>

InitEndpoint == InitWith({MaxN - 1, MaxN}, {4}, {<<Num(0), Num(0)>>})

NextEndpoint ==
    \E x \in {1, -1}, fk \in [1..basis["K0"].N -> 0..2], vander \in BOOLEAN :
        EndpointCall("K0", x, fk, vander)

SpecEndpoint == InitEndpoint /\ [][NextEndpoint]_vars

\* C21: an expansion in a Legendre ShenDirichletBasis with coefficient a in
\* slot N-2 and b in slot N-1 takes the value a at x = 1 and b at x = -1,
\* by the Vandermonde basis and by eval alike.
C21_EndpointValues ==
    call.op \in {"eval", "vandermonde_evaluate"}
    => call.args.out
         = 2 * (IF call.args.x = 1 THEN call.args.fk[basis[call.b].N - 1]
                ELSE call.args.fk[basis[call.b].N])

(***************************************************************************)
(* The 1D convolution of the Fourier bases.                                *)
(***************************************************************************)
\* R2CBasis.convolve / C2CBasis.convolve(u, v, uv, fast): whether the call
\* returns, and by which path the product is computed.
Convolve(b, fast) ==
    IF fast
    THEN [ok |-> b.pad > 4, by |-> "backward*backward->forward"]
    ELSE [ok |-> TRUE, by |-> "convolve_1D"]

ConvolveCall(id, fast, uv) ==
    /\ IsFourier(Kind(id))
    /\ call' = Called("convolve", "-", id,
                      [fast |-> fast, uv |-> uv,
                       by |-> Convolve(basis[id], fast).by],
                      Convolve(basis[id], fast).ok)
    /\ trace' = <<>>
    /\ UNCHANGED <<basis, heap, mem, space, proc, freed>>

\* The padding factors tried: 1, 1.25, 1.5 and 2.
InitConvolve == InitWith(1..MaxN, {4, 5, 6, 8}, {<<Num(0), Num(0)>>})

NextConvolve ==
    \E id \in {"K1", "K2"}, fast \in BOOLEAN, uv \in {"None", "array"} :
        ConvolveCall(id, fast, uv)

SpecConvolve == InitConvolve /\ [][NextConvolve]_vars

\* C22: convolve with fast transforms fails whenever the padding factor of
\* the basis is below 3/2; it never returns a product computed with a
\* smaller padding factor.
C22_ConvolveNeedsPadding ==
    (call.op = "convolve" /\ call.args.fast /\ basis[call.b].pad < 6)
    => ~call.ok

\* C23: on every constructed space, stage k of the forward pipeline works
\* along axes[-1-k]: the basis of that stage is the one at that position of
\* the bases, and its planned axis is that axis, also for a basis that
\* another space has planned as well.
C23_StageAxisIsPipelineAxis ==
    \A sid \in Built :
        \A k \in 1..Len(space[sid].xfftn) :
            /\ space[sid].xfftn[k]
                 = space[sid].bases[Reverse(space[sid].axes)[k] + 1]
            /\ basis[space[sid].xfftn[k]].fwd.planned
            /\ basis[space[sid].xfftn[k]].fwd.axis
                 = Reverse(space[sid].axes)[k]

(***************************************************************************)
(* The dtype of the redistributions, for bases of every size.              *)
(***************************************************************************)
\* The spaces tried: two or more bases in the default order, the dtype
\* inferred, the pencil decomposition.
ConstructSized(sid) ==
    /\ space[sid] = NoSpace
    /\ \E bs \in {b \in BasesArgs : Len(b) >= 2}, p \in 1..MaxProcs :
            TensorProductSpaceInit(sid, bs, NoAxes, "None", FALSE, Comm(p))

InitSized == InitWith(1..MaxN, {4}, {<<Num(0), Num(0)>>})

NextSized ==
    \/ ConstructSized("T")
    \/ Forward("T", UserData(1))

SpecSized == InitSized /\ [][NextSized]_vars

\* C24: each redistribution is created for the dtype of the forward output
\* of the stage before it; after a real-to-complex stage every later
\* redistribution is planned for the complex dtype, for every N >= 1.
C24_TransferDtypeIsStageOutput ==
    \A sid \in Built :
        \A k \in 1..Len(space[sid].transfer) :
            /\ space[sid].transfer[k].dtype
                 = basis[space[sid].xfftn[k]].fwd.odtype
            /\ (\E j \in 1..k : Kind(space[sid].xfftn[j]) = "R2C")
                  => space[sid].transfer[k].dtype \in ComplexChars

(***************************************************************************)
(* energy_fourier(u, T) on a space of Fourier bases.  The result is a sum  *)
(* of |u[i]|^2 over the last axis with integer weights; it is kept as the  *)
(* weight of every global index 0 .. M-1 of that axis.                     *)
(***************************************************************************)
\* The local result of a process that owns the indices start .. stop-1 of
\* the last axis, whose sub-group has `size` processes: [ok, w].
EnergyLocal(kind, start, stop, M, size) ==
    [ok |-> stop > start,
     w |-> [i \in 0..(M - 1) |->
              IF i < start \/ i >= stop THEN 0
              ELSE IF kind # "R2C" THEN 1
              ELSE (IF start < i /\ i < stop - 1 THEN 2 ELSE 0)
                   + (IF i # start THEN 0
                      ELSE IF size = 1 \/ start = 0 THEN 1 ELSE 2)
                   + (IF i # stop - 1 THEN 0
                      ELSE IF size = 1 \/ stop = M THEN 1 ELSE 2)]]

\* energy_fourier entered by every process; sizes[r] indices of the last
\* axis are owned by process r.
EnergyFourierCall(id, sizes) ==
    /\ IsFourier(Kind(id))
    /\ call' = Called("energy_fourier", "-", id,
                      [sizes |-> sizes, done |-> {},
                       w |-> [i \in 0..(SeqSum(sizes) - 1) |-> 0]],
                      TRUE)
    /\ trace' = <<>>
    /\ UNCHANGED <<basis, heap, mem, space, proc, freed>>

\* comm.allreduce(result): the local result of process r joins the sum.
EnergyAllreduce(r, loc) ==
    /\ call' = [call EXCEPT !.args.done = @ \cup {r},
                            !.args.w = [i \in DOMAIN @ |-> @[i] + loc.w[i]],
                            !.ok = @ /\ loc.ok]
    /\ trace' = <<>>
    /\ UNCHANGED <<basis, heap, mem, space, proc, freed>>

\* The spectral length of the last axis of a basis of N points.
SpectralLen(b) == TruncLen(b, PhysLen(b))

\* N up to 2*MaxN, so that two processes can own two indices each.
InitEnergy == InitWith(1..(2 * MaxN), {4}, {<<Num(0), Num(0)>>})

NextEnergy ==
    \/ \E id \in {"K1", "K2"}, p \in 1..MaxProcs :
         \E sizes \in [1..p -> 0..SpectralLen(basis[id])] :
            /\ SeqSum(sizes) = SpectralLen(basis[id])
            /\ EnergyFourierCall(id, sizes)
    \/ \E r \in Ranks :
         /\ call.op = "energy_fourier"
         /\ r \in DOMAIN call.args.sizes
         /\ r \notin call.args.done
         /\ EnergyAllreduce(r,
               EnergyLocal(Kind(call.b),
                           SeqSum(SubSeq(call.args.sizes, 1, r - 1)),
                           SeqSum(SubSeq(call.args.sizes, 1, r)),
                           SeqSum(call.args.sizes),
                           Len(call.args.sizes)))

SpecEnergy == InitEnergy /\ [][NextEnergy]_vars

\* C25: on a space whose last basis is real-to-complex, for every
\* distribution of the last axis over the processes, energy_fourier returns
\* after the sum-reduction the value of one process: index 0 and the last
\* index counted once and every other index twice, also when a process
\* owns exactly one index.
C25_EnergyCountsAsOneProcess ==
    (/\ call.op = "energy_fourier"
     /\ Kind(call.b) = "R2C"
     /\ call.args.done = DOMAIN call.args.sizes)
    => /\ call.ok
       /\ \A i \in DOMAIN call.args.w :
             call.args.w[i]
               = IF i = 0 \/ i = SeqSum(call.args.sizes) - 1 THEN 1 ELSE 2

(***************************************************************************)
(* The conjugate part of a real-to-complex axis in the non-optimized eval: *)
(* how often each global index 0 .. M-1 of the axis enters it.             *)
(***************************************************************************)
\* TensorProductSpace.vandermonde_evaluate_local_expansion and
\* R2CBasis.vandermonde_evaluate_local_expansion on a process that owns the
\* indices start .. stop-1: the indices of np.conj(np.dot(P[sl], fc[s])).
R2CConjLocal(N, start, stop) ==
    LET last_conj_index == IF N % 2 = 0 THEN N \div 2 ELSE N \div 2 + 1
        lo == IF start = 0 THEN 1 ELSE 0
        hi == IF stop - start > last_conj_index THEN stop - start - 1
              ELSE stop - start
    IN  [ok |-> TRUE,
         w |-> [i \in 0..(N \div 2) |->
                  IF start + lo <= i /\ i < start + hi THEN 1 ELSE 0]]

\* _eval_python entered by every process, with sizes[r] indices of the
\* real-to-complex axis owned by process r.
EvalPythonCall(id, sizes) ==
    /\ Kind(id) = "R2C"
    /\ call' = Called("_eval_python", "-", id,
                      [sizes |-> sizes, done |-> {},
                       w |-> [i \in 0..(SeqSum(sizes) - 1) |-> 0]],
                      TRUE)
    /\ trace' = <<>>
    /\ UNCHANGED <<basis, heap, mem, space, proc, freed>>

\* self.comm.allreduce(out): the local sum of process r joins the result.
EvalPythonAllreduce(r, loc) ==
    /\ call' = [call EXCEPT !.args.done = @ \cup {r},
                            !.args.w = [i \in DOMAIN @ |-> @[i] + loc.w[i]]]
    /\ trace' = <<>>
    /\ UNCHANGED <<basis, heap, mem, space, proc, freed>>

InitConj == InitWith(1..(2 * MaxN), {4}, {<<Num(0), Num(0)>>})

NextConj ==
    \/ \E p \in 1..MaxProcs :
         \E sizes \in [1..p -> 0..(basis["K2"].N \div 2 + 1)] :
            /\ SeqSum(sizes) = basis["K2"].N \div 2 + 1
            /\ EvalPythonCall("K2", sizes)
    \/ \E r \in Ranks :
         /\ call.op = "_eval_python"
         /\ r \in DOMAIN call.args.sizes
         /\ r \notin call.args.done
         /\ EvalPythonAllreduce(r,
               R2CConjLocal(basis[call.b].N,
                            SeqSum(SubSeq(call.args.sizes, 1, r - 1)),
                            SeqSum(SubSeq(call.args.sizes, 1, r))))

SpecConj == InitConj /\ [][NextConj]_vars

\* C26: in the non-optimized eval, summed over all processes the conjugate
\* part of a real-to-complex axis holds every global index from 1 to the
\* last one that is not the Nyquist index exactly once, and never index 0
\* nor the Nyquist index of an even N, for every distribution of the axis.
C26_ConjugatePartOnce ==
    (call.op = "_eval_python" /\ call.args.done = DOMAIN call.args.sizes)
    => \A i \in DOMAIN call.args.w :
          call.args.w[i]
            = IF i = 0 \/ (basis[call.b].N % 2 = 0 /\ i = basis[call.b].N \div 2)
              THEN 0 ELSE 1

(***************************************************************************)
(* A space with two Dirichlet bases.                                       *)
(***************************************************************************)
\* The spaces tried: K0 and K4 among the bases, the default order, the
\* dtype inferred, the pencil decomposition.
ConstructTwo(sid) ==
    /\ space[sid] = NoSpace
    /\ \E bs \in InjSeqs(BasisIds \cup DirichletIds), p \in 1..MaxProcs :
         /\ Len(bs) <= MaxDim
         /\ DirichletIds \subseteq Range(bs)
         /\ TensorProductSpaceInit(sid, bs, NoAxes, "None", FALSE, Comm(p))

InitTwo == InitWith({MaxN}, {4}, BcArgs)

NextTwo ==
    \/ ConstructTwo("T")
    \/ Forward("T", UserData(1))

SpecTwo == InitTwo /\ [][NextTwo]_vars

\* C27: after construction of a space with Dirichlet bases, the
\* BoundaryValues of each of them has the axis of its own basis and its
\* slices set, also when the space holds two Dirichlet bases.
C27_BoundaryValuesOfOwnBasis ==
    \A sid \in Built :
        \A i \in 1..Len(space[sid].bases) :
            IsDirichlet(Kind(space[sid].bases[i])) =>
                /\ basis[space[sid].bases[i]].bc.sliced
                /\ basis[space[sid].bases[i]].bc.axis = i - 1
                /\ basis[space[sid].bases[i]].bc.axis
                     = basis[space[sid].bases[i]].fwd.axis

(***************************************************************************)
(* Boundary values of every type.                                          *)
(***************************************************************************)
\* bc: numbers, symbolic expressions, arrays of one element, and pairs with
\* an entry of another type.
TypedBcArgs ==
    {<<Num(0), Num(0)>>, <<Num(1), Num(2)>>,
     <<Given("expr", 1), Given("expr", 2)>>,
     <<Given("arr1", 1), Given("arr1", 2)>>,
     <<Given("other", 0), Num(2)>>, <<Num(3), Given("other", 0)>>}

InitTyped == InitWith({MaxN}, {4}, {<<Num(0), Num(0)>>, <<Num(1), Num(2)>>})

NextTyped ==
    \/ ConstructApply("T")
    \/ \E bc \in TypedBcArgs : UpdateBcs("K0", bc)
    \/ SetTensorBcsCall("K0", "T")

SpecTyped == InitTyped /\ [][NextTyped]_vars

\* C28: in set_tensor_bcs the value written to the second boundary slot of
\* the boundary array comes from bc[1] and the value written to the first
\* from bc[0], for boundary data of every type: the coefficients computed
\* from the array carry the values of their own entries.
C28_SlotsFromOwnValues ==
    (/\ call.op = "set_tensor_bcs" /\ call.ok
     /\ Bv.bcs[1].k \in {"scalar", "arr"})
    => /\ Bv.bcs[1].v = Bv.bc[1].v
       /\ Bv.bcs[2].v = Bv.bc[2].v

\* C29: when update_bcs rejects its argument the stored bc, bcs and
\* bcs_final are as before the call; after an accepted call bcs is the
\* pair given and bcs_final equals bcs.
C29_RejectedUpdateChangesNothing ==
    [][call'.op = "update_bcs"
       => IF call'.ok
          THEN /\ basis'[call'.b].bc.bcs = call'.args
               /\ basis'[call'.b].bc.bcs_final = basis'[call'.b].bc.bcs
          ELSE /\ basis'[call'.b].bc.bc = basis[call'.b].bc.bc
               /\ basis'[call'.b].bc.bcs = basis[call'.b].bc.bcs
               /\ basis'[call'.b].bc.bcs_final
                    = basis[call'.b].bc.bcs_final]_vars

(***************************************************************************)
(* Direct dealiasing: _padding_backward of a basis made with               *)
(* dealias_direct=True and padding factor 1, on an array of one axis.      *)
(***************************************************************************)
\* np.fft.fftfreq(N, 1./N) (C2CBasis.wavenumbers) and np.fft.rfftfreq
\* (R2CBasis.wavenumbers): the wavenumber of position p.
Wavenumber(kind, N, p) ==
    IF kind = "R2C" \/ p <= (N - 1) \div 2 THEN p ELSE p - N

\* The elif self.dealias_direct branch: padded_array[su] = 0, su the slice
\* floor(N/3) .. end for the real-to-complex basis (N = self.N) and
\* floor(N/3) .. floor(2N/3)-1 for the complex one (N the array length).
DealiasDirect(b, padded) ==
    [i \in 1..Len(padded) |->
       IF b.kind = "R2C"
       THEN (IF i - 1 >= b.N \div 3 THEN 0 ELSE padded[i])
       ELSE (IF i - 1 >= Len(padded) \div 3
                /\ i - 1 < (2 * Len(padded)) \div 3
             THEN 0 ELSE padded[i])]

DealiasDirectCall(id, padded) ==
    /\ IsFourier(Kind(id))
    /\ call' = Called("dealias_direct", "-", id,
                      [u |-> padded,
                       out |-> DealiasDirect(basis[id], padded)],
                      TRUE)
    /\ trace' = <<>>
    /\ UNCHANGED <<basis, heap, mem, space, proc, freed>>

InitDealias == InitWith(1..MaxN, {4}, {<<Num(0), Num(0)>>})

\* Arrays of the spectral length of the basis, no entry zero.
NextDealias ==
    \E id \in {"K1", "K2"} :
        \E padded \in [1..SpectralLen(basis[id]) -> 1..3] :
            DealiasDirectCall(id, padded)

SpecDealias == InitDealias /\ [][NextDealias]_vars

\* C30: with dealias_direct and padding factor 1 the modes the
\* complex-to-complex basis zeroes are symmetric in wavenumber for every N:
\* apart from the Nyquist mode of an even N, mode k is zeroed if and only
\* if mode -k is, and for k >= 0 mode k is zeroed exactly when the
\* real-to-complex basis zeroes it, k >= floor(N/3).
C30_DealiasSymmetric ==
    call.op = "dealias_direct" =>
        LET N == basis[call.b].N
            k(p) == Wavenumber(Kind(call.b), N, p - 1)
            zeroed(p) == call.args.out[p] = 0
        IN  \A p \in DOMAIN call.args.out :
                /\ (k(p) >= 0 /\ ~(N % 2 = 0 /\ 2 * k(p) = N))
                      => (zeroed(p) <=> k(p) >= N \div 3)
                /\ \A q \in DOMAIN call.args.out :
                      (k(q) = -k(p) /\ 2 * k(p) # N /\ 2 * k(p) # -N)
                         => (zeroed(p) <=> zeroed(q))

====
